---- MODULE Spec2Model ----
(***************************************************************************)
(* Sustainability scoring and allocation engine of support-oss.            *)
(*                                                                         *)
(* calculateScore and calculateAllocation are pure functions.  They are    *)
(* modelled as operators that follow the TypeScript statement by           *)
(* statement, and are applied by the actions of SpecScore and SpecAlloc to *)
(* inputs drawn from bounded sets.  The funding helpers formatAmountRange, *)
(* formatMonthlyRange, buildFundingSummary and hasFundingData are modelled *)
(* the same way under SpecFormat and SpecFunding, and the two analyze      *)
(* handlers, which read the packages table and call the functions above,   *)
(* are the actions of SpecAnalyze.                                         *)
(*                                                                         *)
(* Numbers.  A JavaScript number is modelled as an exact rational <<n, d>> *)
(* in lowest terms with d > 0, so the arithmetic is the real-number        *)
(* arithmetic the code intends; the last-bit error of IEEE-754 doubles is  *)
(* not modelled.  Math.log10 is exact on powers of ten and undefined       *)
(* elsewhere, so download and dependent counts are drawn from 10^k - 1.    *)
(*                                                                         *)
(* Optional fields.  A field that may be null or undefined is a sequence   *)
(* of length 0 (absent) or 1 (present).                                    *)
(***************************************************************************)
EXTENDS Integers, Sequences, FiniteSets, TLC

VARIABLES
    pc,           \* "ready" before the call, "done" after it
    inputs,       \* ScoringInputs passed to calculateScore
    weights,      \* ScoringWeights passed to calculateScore
    result,       \* ScoringResult returned by calculateScore
    packages,     \* AllocationInput[] passed to calculateAllocation
    totalBudget,  \* budget passed to calculateAllocation
    allocation,   \* AllocationOutput[] returned by calculateAllocation
    amount,       \* argument of formatAmountRange and formatMonthlyRange
    label,        \* what formatAmountRange returned, once it has
    monthlyLabel, \* what formatMonthlyRange returned, once it has
    fundingPkg,   \* PackageWithFunding passed to the funding helpers
    summary,      \* what buildFundingSummary returned, once it has
    hasData,      \* what hasFundingData returned, once it has
    db,           \* the packages table: name -> row, or nothing
    request,      \* body of the analyze request being handled
    response,     \* response of the analyze handler, once it has answered
    crawler,      \* the run of the npm crawler: where it is, and its locals
    clock         \* the time in hours, as the crawler's new Date() reads it

scoreVars == <<inputs, weights, result>>
allocVars == <<packages, totalBudget, allocation>>
formatVars == <<amount, label, monthlyLabel>>
fundingVars == <<fundingPkg, summary, hasData>>
analyzeVars == <<db, request, response>>
crawlVars == <<crawler, clock>>

vars == <<pc, scoreVars, allocVars, formatVars, fundingVars, analyzeVars, crawlVars>>

---------------------------------------------------------------------------
(* Exact rational arithmetic standing for the JavaScript number type.      *)

Abs(n) == IF n < 0 THEN -n ELSE n

RECURSIVE GCD(_, _)
GCD(a, b) == IF b = 0 THEN a ELSE GCD(b, a % b)

Rat(n, d) ==
    LET g == GCD(Abs(n), Abs(d))
        s == IF d < 0 THEN -1 ELSE 1
    IN  <<(s * n) \div g, (s * d) \div g>>

I(n) == <<n, 1>>

Zero == I(0)
One == I(1)

RAdd(x, y) == Rat(x[1] * y[2] + y[1] * x[2], x[2] * y[2])
RNeg(x) == <<-x[1], x[2]>>
RSub(x, y) == RAdd(x, RNeg(y))
RMul(x, y) == Rat(x[1] * y[1], x[2] * y[2])
RDiv(x, y) == Rat(x[1] * y[2], x[2] * y[1])
RLt(x, y) == x[1] * y[2] < y[1] * x[2]
RLe(x, y) == x[1] * y[2] <= y[1] * x[2]
RAbs(x) == <<Abs(x[1]), x[2]>>
MathMin(x, y) == IF RLt(y, x) THEN y ELSE x
MathMax(x, y) == IF RLt(x, y) THEN y ELSE x

\* Math.round: the nearest integer, a tie going towards +Infinity.
MathRound(x) == I((2 * x[1] + x[2]) \div (2 * x[2]))

\* Math.floor
MathFloor(x) == I(x[1] \div x[2])

\* Math.log10, exact on the powers of ten (no other argument is evaluated).
RECURSIVE Log10Int(_)
Log10Int(n) ==
    CASE n = 1 -> 0
      [] n > 1 /\ n % 10 = 0 -> 1 + Log10Int(n \div 10)

MathLog10(x) ==
    CASE x[2] = 1 -> I(Log10Int(x[1]))

\* Sum of a sequence of numbers, as Array.prototype.reduce((sum, w) => sum + w, 0).
RECURSIVE RSum(_)
RSum(seq) ==
    IF seq = <<>> THEN Zero
    ELSE RAdd(RSum(SubSeq(seq, 1, Len(seq) - 1)), seq[Len(seq)])

---------------------------------------------------------------------------
(* Optional values and JavaScript truthiness.                              *)

None == <<>>
Some(v) == <<v>>

\* if (x) on number | null | undefined: false for null, undefined and 0.
TruthyNumber(o) == o # None /\ o[1] # Zero
\* if (x) on string | null | undefined: false for null, undefined and "".
TruthyString(o) == o # None /\ o[1] # ""
\* if (x) on boolean | null | undefined
TruthyBoolean(o) == o # None /\ o[1]
\* x ?? 0
OrZero(o) == IF o = None THEN Zero ELSE o[1]

\* A call that has not returned yet, and one that returned v.
NotCalled == <<>>
Returned(v) == <<v>>

\* The variables of the functions a specification does not call.
ScoreUnused == inputs = None /\ weights = None /\ result = None
AllocUnused == packages = <<>> /\ totalBudget = Zero /\ allocation = <<>>
FormatUnused == amount = None /\ label = NotCalled /\ monthlyLabel = NotCalled
FundingUnused == fundingPkg = None /\ summary = NotCalled /\ hasData = NotCalled
AnalyzeUnused == db = None /\ request = None /\ response = NotCalled
CrawlUnused == crawler = None /\ clock = 0

---------------------------------------------------------------------------
(* Scoring: types and constants.                                           *)

Categories == {"critical", "needs-support", "stable", "thriving", "corporate"}

DEFAULT_WEIGHTS ==
    [downloads        |-> I(10),
     dependents       |-> I(15),
     ocBalance        |-> I(20),
     ocIncome         |-> I(15),
     githubSponsors   |-> I(5),
     corporateBacking |-> I(30),
     maintainerCount  |-> I(5),
     activityPenalty  |-> I(10),
     aiDisruption     |-> I(15)]

\* CATEGORY_THRESHOLDS with the thriving band reaching 100.
CategoryThresholdsThrivingTo100 ==
    [critical |-> I(30), needsSupport |-> I(50), stable |-> I(75), thriving |-> I(100)]

CATEGORY_THRESHOLDS ==
    [critical |-> I(30), needsSupport |-> I(50), stable |-> I(75), thriving |-> I(90)]

\* A template literal: its fixed text and the number or string it interpolates.
Reason(text, num, str) == [text |-> text, num |-> num, str |-> str]

Factor(name, impact, reason) == [name |-> name, impact |-> impact, reason |-> reason]

normalizeDownloads(downloads) ==
    IF ~TruthyNumber(downloads) THEN Zero
    ELSE MathMin(One, RDiv(MathLog10(RAdd(downloads[1], One)), I(9)))

normalizeDependents(dependents) ==
    IF ~TruthyNumber(dependents) THEN Zero
    ELSE MathMin(One, RDiv(MathLog10(RAdd(dependents[1], One)), I(4)))

\* normalizeBalance without the cap at 1.
normalizeBalanceUncapped(balance) ==
    IF ~TruthyNumber(balance) THEN Zero
    ELSE RDiv(balance[1], I(100000))

normalizeBalance(balance) ==
    IF ~TruthyNumber(balance) THEN Zero
    ELSE MathMin(One, RDiv(balance[1], I(100000)))

normalizeIncome(income) ==
    IF ~TruthyNumber(income) THEN Zero
    ELSE MathMin(One, RDiv(income[1], I(100000)))

---------------------------------------------------------------------------
(* calculateScore.  The running state of the weighted path is the record   *)
(* [score, factors]; each factor block of the function is one operator.    *)

PushFactor(st, f) == [st EXCEPT !.factors = Append(@, f)]

AddScore(st, x) == [st EXCEPT !.score = RAdd(@, x)]

statusScores ==
    [c \in Categories |->
        CASE c = "critical" -> I(15)
          [] c = "needs-support" -> I(40)
          [] c = "stable" -> I(65)
          [] c = "thriving" -> I(85)
          [] c = "corporate" -> I(95)]

\* The early return for a maintainer's self-reported status.
MaintainerStatusResult(in) ==
    [score       |-> statusScores[in.maintainerStatus[1]],
     category    |-> in.maintainerStatus[1],
     explanation |-> <<Reason("Score based on maintainer self-reported status", Zero, "")>>,
     factors     |-> <<Factor("Maintainer Status", Zero,
                              Reason("Maintainer marked as", Zero, in.maintainerStatus[1]))>>]

\* CorporateBackingResult with the factor's impact read from the defaults
\* instead of the weights passed in.
CorporateBackingResultDefaultImpact(in, w) ==
    [score       |-> I(95),
     category    |-> "corporate",
     explanation |-> <<Reason("Backed by - does not need community funding", Zero,
                              in.corporateBacking[1])>>,
     factors     |-> <<Factor("Corporate Backing", DEFAULT_WEIGHTS.corporateBacking,
                              Reason("Maintained by", Zero, in.corporateBacking[1]))>>]

\* The early return for a corporate-backed package.
CorporateBackingResult(in, w) ==
    [score       |-> I(95),
     category    |-> "corporate",
     explanation |-> <<Reason("Backed by - does not need community funding", Zero,
                              in.corporateBacking[1])>>,
     factors     |-> <<Factor("Corporate Backing", w.corporateBacking,
                              Reason("Maintained by", Zero, in.corporateBacking[1]))>>]

\* DownloadsStep with the impact also added to the score.
DownloadsStepAddsImpact(st, in, w) ==
    LET downloadsFactor == normalizeDownloads(in.weeklyDownloads)
    IN  IF RLt(Zero, downloadsFactor)
        THEN AddScore(PushFactor(st, Factor("Weekly Downloads",
                                            RNeg(RMul(downloadsFactor, w.downloads)),
                                            Reason("weekly downloads",
                                                   OrZero(in.weeklyDownloads), ""))),
                      RNeg(RMul(downloadsFactor, w.downloads)))
        ELSE st

DownloadsStep(st, in, w) ==
    LET downloadsFactor == normalizeDownloads(in.weeklyDownloads)
    IN  IF RLt(Zero, downloadsFactor)
        THEN PushFactor(st, Factor("Weekly Downloads",
                                   RNeg(RMul(downloadsFactor, w.downloads)),
                                   Reason("weekly downloads", OrZero(in.weeklyDownloads), "")))
        ELSE st

DependentsStep(st, in, w) ==
    LET dependentsFactor == normalizeDependents(in.dependentCount)
    IN  IF RLt(Zero, dependentsFactor)
        THEN PushFactor(st, Factor("Dependent Packages",
                                   RNeg(RMul(dependentsFactor, w.dependents)),
                                   Reason("packages depend on this", OrZero(in.dependentCount), "")))
        ELSE st

BalanceStep(st, in, w) ==
    LET balanceFactor == normalizeBalance(in.ocBalance)
    IN  IF RLt(Zero, balanceFactor)
        THEN AddScore(PushFactor(st, Factor("OC Balance",
                                            RMul(balanceFactor, w.ocBalance),
                                            Reason("in OpenCollective", OrZero(in.ocBalance), ""))),
                      RMul(balanceFactor, w.ocBalance))
        ELSE st

IncomeStep(st, in, w) ==
    LET incomeFactor == normalizeIncome(in.ocYearlyIncome)
    IN  IF RLt(Zero, incomeFactor)
        THEN AddScore(PushFactor(st, Factor("OC Income",
                                            RMul(incomeFactor, w.ocIncome),
                                            Reason("/year from OpenCollective",
                                                   OrZero(in.ocYearlyIncome), ""))),
                      RMul(incomeFactor, w.ocIncome))
        ELSE st

GithubSponsorsStep(st, in, w) ==
    IF TruthyBoolean(in.githubSponsors)
    THEN AddScore(PushFactor(st, Factor("GitHub Sponsors", w.githubSponsors,
                                        Reason("Has GitHub Sponsors enabled", Zero, ""))),
                  w.githubSponsors)
    ELSE st

\* MaintainerCountStep without the cap of the bonus at 5 maintainers.
MaintainerCountStepUncapped(st, in, w) ==
    IF TruthyNumber(in.maintainerCount) /\ RLt(One, in.maintainerCount[1])
    THEN LET maintainerBonus ==
                 RMul(RDiv(RSub(in.maintainerCount[1], One), I(4)), w.maintainerCount)
         IN  AddScore(PushFactor(st, Factor("Maintainer Count", maintainerBonus,
                                            Reason("maintainers (lower bus factor)",
                                                   in.maintainerCount[1], ""))),
                      maintainerBonus)
    ELSE IF in.maintainerCount = Some(One)
    THEN AddScore(PushFactor(st, Factor("Solo Maintainer",
                                        RDiv(RNeg(w.maintainerCount), I(2)),
                                        Reason("Single maintainer (bus factor risk)", Zero, ""))),
                  RNeg(RDiv(w.maintainerCount, I(2))))
    ELSE st

MaintainerCountStep(st, in, w) ==
    IF TruthyNumber(in.maintainerCount) /\ RLt(One, in.maintainerCount[1])
    THEN LET maintainerBonus ==
                 RMul(MathMin(One, RDiv(RSub(in.maintainerCount[1], One), I(4))),
                      w.maintainerCount)
         IN  AddScore(PushFactor(st, Factor("Maintainer Count", maintainerBonus,
                                            Reason("maintainers (lower bus factor)",
                                                   in.maintainerCount[1], ""))),
                      maintainerBonus)
    ELSE IF in.maintainerCount = Some(One)
    THEN AddScore(PushFactor(st, Factor("Solo Maintainer",
                                        RDiv(RNeg(w.maintainerCount), I(2)),
                                        Reason("Single maintainer (bus factor risk)", Zero, ""))),
                  RNeg(RDiv(w.maintainerCount, I(2))))
    ELSE st

\* InactivityStep testing days >= 365 instead of days > 365.
InactivityStepFrom365(st, in, w) ==
    IF TruthyNumber(in.daysSinceLastPublish) /\ RLe(I(365), in.daysSinceLastPublish[1])
    THEN LET inactivityPenalty ==
                 RMul(MathMin(One, RDiv(RSub(in.daysSinceLastPublish[1], I(365)), I(730))),
                      w.activityPenalty)
         IN  AddScore(PushFactor(st, Factor("Inactivity", RNeg(inactivityPenalty),
                                            Reason("No releases in years",
                                                   MathFloor(RDiv(in.daysSinceLastPublish[1],
                                                                  I(365))), ""))),
                      RNeg(inactivityPenalty))
    ELSE st

InactivityStep(st, in, w) ==
    IF TruthyNumber(in.daysSinceLastPublish) /\ RLt(I(365), in.daysSinceLastPublish[1])
    THEN LET inactivityPenalty ==
                 RMul(MathMin(One, RDiv(RSub(in.daysSinceLastPublish[1], I(365)), I(730))),
                      w.activityPenalty)
         IN  AddScore(PushFactor(st, Factor("Inactivity", RNeg(inactivityPenalty),
                                            Reason("No releases in years",
                                                   MathFloor(RDiv(in.daysSinceLastPublish[1],
                                                                  I(365))), ""))),
                      RNeg(inactivityPenalty))
    ELSE st

AiDisruptionStep(st, in, w) ==
    IF TruthyBoolean(in.aiDisruptionFlag)
    THEN AddScore(PushFactor(st, Factor("AI Disruption", RNeg(w.aiDisruption),
                                        Reason("Business model at risk from AI tools", Zero, ""))),
                  RNeg(w.aiDisruption))
    ELSE st

ecosystemImportance(in) ==
    RAdd(RMul(normalizeDownloads(in.weeklyDownloads), Rat(6, 10)),
         RMul(normalizeDependents(in.dependentCount), Rat(4, 10)))

\* ImportanceStep without the test of the running score.
ImportanceStepAnyScore(st, in) ==
    IF RLt(Rat(3, 10), ecosystemImportance(in))
    THEN LET importancePenalty == RMul(ecosystemImportance(in), I(15))
         IN  PushFactor(AddScore(st, RNeg(importancePenalty)),
                        Factor("High Impact, Low Funding", RNeg(importancePenalty),
                               Reason("Critical infrastructure without adequate funding",
                                      Zero, "")))
    ELSE st

ImportanceStep(st, in) ==
    IF RLt(Rat(3, 10), ecosystemImportance(in)) /\ RLt(st.score, I(60))
    THEN LET importancePenalty == RMul(ecosystemImportance(in), I(15))
         IN  PushFactor(AddScore(st, RNeg(importancePenalty)),
                        Factor("High Impact, Low Funding", RNeg(importancePenalty),
                               Reason("Critical infrastructure without adequate funding",
                                      Zero, "")))
    ELSE st

\* ClampScore without the upper bound.
ClampScoreNoUpperBound(score) == MathMax(Zero, MathRound(score))

\* score = Math.max(0, Math.min(100, Math.round(score)))
ClampScore(score) == MathMax(Zero, MathMin(I(100), MathRound(score)))

\* CategoryOf with a score on a threshold counted in the band above it.
CategoryOfStrict(score) ==
    IF RLt(score, CATEGORY_THRESHOLDS.critical) THEN "critical"
    ELSE IF RLt(score, CATEGORY_THRESHOLDS.needsSupport) THEN "needs-support"
    ELSE IF RLt(score, CATEGORY_THRESHOLDS.stable) THEN "stable"
    ELSE IF RLt(score, CATEGORY_THRESHOLDS.thriving) THEN "thriving"
    ELSE "corporate"

CategoryOf(score) ==
    IF RLe(score, CATEGORY_THRESHOLDS.critical) THEN "critical"
    ELSE IF RLe(score, CATEGORY_THRESHOLDS.needsSupport) THEN "needs-support"
    ELSE IF RLe(score, CATEGORY_THRESHOLDS.stable) THEN "stable"
    ELSE IF RLe(score, CATEGORY_THRESHOLDS.thriving) THEN "thriving"
    ELSE "corporate"

\* InsertByImpact placing a factor before the factors of equal absolute impact.
RECURSIVE InsertByImpactTiesFirst(_, _)
InsertByImpactTiesFirst(sorted, f) ==
    IF sorted = <<>> THEN <<f>>
    ELSE IF RLe(RAbs(Head(sorted).impact), RAbs(f.impact))
    THEN <<f>> \o sorted
    ELSE <<Head(sorted)>> \o InsertByImpactTiesFirst(Tail(sorted), f)

\* [...factors].sort((a, b) => Math.abs(b.impact) - Math.abs(a.impact)): a stable
\* sort of a copy by descending absolute impact.
RECURSIVE InsertByImpact(_, _)
InsertByImpact(sorted, f) ==
    IF sorted = <<>> THEN <<f>>
    ELSE IF RLt(RAbs(Head(sorted).impact), RAbs(f.impact))
    THEN <<f>> \o sorted
    ELSE <<Head(sorted)>> \o InsertByImpact(Tail(sorted), f)

RECURSIVE sortedFactors(_)
sortedFactors(factors) ==
    IF factors = <<>> THEN <<>>
    ELSE InsertByImpact(sortedFactors(SubSeq(factors, 1, Len(factors) - 1)),
                        factors[Len(factors)])

\* Explanation without the slice: the reason of every factor.
ExplanationNoSlice(factors) ==
    LET sorted == sortedFactors(factors)
    IN  [i \in 1..Len(sorted) |-> sorted[i].reason]

\* sortedFactors.slice(0, 3), each factor's reason pushed in turn
Explanation(factors) ==
    LET sorted == sortedFactors(factors)
        n == IF Len(sorted) < 3 THEN Len(sorted) ELSE 3
    IN  [i \in 1..n |-> sorted[i].reason]

\* The running score and the factors after every factor block, before the clamp.
WeightedState(in, w) ==
    LET s0 == [score |-> I(50), factors |-> <<>>]
        s1 == DownloadsStep(s0, in, w)
        s2 == DependentsStep(s1, in, w)
        s3 == BalanceStep(s2, in, w)
        s4 == IncomeStep(s3, in, w)
        s5 == GithubSponsorsStep(s4, in, w)
        s6 == MaintainerCountStep(s5, in, w)
        s7 == InactivityStep(s6, in, w)
        s8 == AiDisruptionStep(s7, in, w)
    IN  ImportanceStep(s8, in)

\* The clamp, the category and the explanation of the state the factor
\* blocks leave.
ScoringResultOf(st) ==
    LET score == ClampScore(st.score)
    IN  [score       |-> score,
         category    |-> CategoryOf(score),
         explanation |-> Explanation(st.factors),
         factors     |-> st.factors]

WeightedResult(in, w) == ScoringResultOf(WeightedState(in, w))

\* calculateScore with the two early returns in the opposite order.
calculateScoreCorporateFirst(in, w) ==
    IF TruthyString(in.corporateBacking) THEN CorporateBackingResult(in, w)
    ELSE IF TruthyString(in.maintainerStatus) THEN MaintainerStatusResult(in)
    ELSE WeightedResult(in, w)

calculateScore(in, w) ==
    IF TruthyString(in.maintainerStatus) THEN MaintainerStatusResult(in)
    ELSE IF TruthyString(in.corporateBacking) THEN CorporateBackingResult(in, w)
    ELSE WeightedResult(in, w)

---------------------------------------------------------------------------
(* SpecScore: calculateScore applied to bounded inputs.                    *)

\* Weight configurations: the defaults multiplied by 1..MaxWeightScale, and the
\* override { ...DEFAULT_WEIGHTS, githubSponsors: 20 }.
MaxWeightScale == 2

ScaleWeights(w, k) == [f \in DOMAIN w |-> RMul(w[f], I(k))]

WeightConfigs ==
    {ScaleWeights(DEFAULT_WEIGHTS, k) : k \in 1..MaxWeightScale}
        \cup {[DEFAULT_WEIGHTS EXCEPT !.githubSponsors = I(20)]}

ScoringInputsSet ==
    [weeklyDownloads      : {None, Some(I(999)), Some(I(999999999))},
     dependentCount       : {None, Some(I(99)), Some(I(99999))},
     ocBalance            : {None, Some(I(50000)), Some(I(200000))},
     ocYearlyIncome       : {None, Some(I(30000)), Some(I(100000))},
     githubSponsors       : {None, Some(TRUE)},
     corporateBacking     : {None, Some(""), Some("Meta")},
     maintainerCount      : {None, Some(Zero), Some(One), Some(I(3))},
     daysSinceLastPublish : {None, Some(I(730)), Some(I(2000))},
     aiDisruptionFlag     : {Some(FALSE), Some(TRUE)},
     maintainerStatus     : {None} \cup {Some(c) : c \in Categories}]

InitScore ==
    /\ pc = "ready"
    /\ inputs \in ScoringInputsSet
    /\ weights \in WeightConfigs
    /\ result = None
    /\ AllocUnused
    /\ FormatUnused
    /\ FundingUnused
    /\ AnalyzeUnused
    /\ CrawlUnused

CallCalculateScore ==
    /\ pc = "ready"
    /\ result' = calculateScore(inputs, weights)
    /\ pc' = "done"
    /\ UNCHANGED <<inputs, weights, allocVars, formatVars, fundingVars, analyzeVars, crawlVars>>

NextScore == CallCalculateScore

SpecScore == InitScore /\ [][NextScore]_vars

---------------------------------------------------------------------------
(* calculateAllocation.                                                    *)

\* allocationWeight without the corporate branch.
allocationWeightNoCorporate(pkg) ==
    IF pkg.category = "thriving" THEN Rat(1, 10)
    ELSE MathMax(Zero, RSub(I(100), pkg.score))

\* allocationWeight without the thriving branch.
allocationWeightNoThriving(pkg) ==
    IF pkg.category = "corporate" THEN Zero
    ELSE MathMax(Zero, RSub(I(100), pkg.score))

\* The callback of packages.map that weights one package.
\* allocationWeight with the score itself as the weight.
allocationWeightByScore(pkg) ==
    IF pkg.category = "corporate" THEN Zero
    ELSE IF pkg.category = "thriving" THEN Rat(1, 10)
    ELSE MathMax(Zero, pkg.score)

\* allocationWeight with a flat weight of 10 for a thriving package.
allocationWeightThrivingTen(pkg) ==
    IF pkg.category = "corporate" THEN Zero
    ELSE IF pkg.category = "thriving" THEN I(10)
    ELSE MathMax(Zero, RSub(I(100), pkg.score))

allocationWeight(pkg) ==
    IF pkg.category = "corporate" THEN Zero
    ELSE IF pkg.category = "thriving" THEN Rat(1, 10)
    ELSE MathMax(Zero, RSub(I(100), pkg.score))

allocationWeights(pkgs) == [i \in 1..Len(pkgs) |-> allocationWeight(pkgs[i])]

totalWeight(pkgs) == RSum(allocationWeights(pkgs))

\* RoundPercentage rounding to a whole number.
RoundPercentageWhole(x) == MathRound(x)

\* Math.round(percentage * 10) / 10
RoundPercentage(x) == RDiv(MathRound(RMul(x, I(10))), I(10))

\* RoundAmount rounding to 1 decimal, as the percentage is.
RoundAmountOneDecimal(x) == RDiv(MathRound(RMul(x, I(10))), I(10))

\* RoundAmount truncating to 2 decimals.
RoundAmountFloor(x) == RDiv(MathFloor(RMul(x, I(100))), I(100))

\* Math.round(x * 100) / 100
RoundAmount(x) == RDiv(MathRound(RMul(x, I(100))), I(100))

\* ZeroAllocation returning no output at all.
ZeroAllocationEmpty(pkgs) == <<>>

\* The return of the totalWeight === 0 branch.
ZeroAllocation(pkgs) ==
    [i \in 1..Len(pkgs) |->
        [packageName |-> pkgs[i].packageName, percentage |-> Zero, suggestedAmount |-> Zero]]

\* The final packages.map.
ProportionalAllocation(pkgs, budget) ==
    [i \in 1..Len(pkgs) |->
        LET weight == allocationWeights(pkgs)[i]
            percentage == RMul(RDiv(weight, totalWeight(pkgs)), I(100))
        IN  [packageName     |-> pkgs[i].packageName,
             percentage      |-> RoundPercentage(percentage),
             suggestedAmount |->
                 RoundAmount(RMul(RDiv(weight, totalWeight(pkgs)), budget))]]

calculateAllocation(pkgs, budget) ==
    IF totalWeight(pkgs) = Zero THEN ZeroAllocation(pkgs)
    ELSE ProportionalAllocation(pkgs, budget)

---------------------------------------------------------------------------
(* SpecAlloc: calculateAllocation applied to bounded inputs.               *)

MaxPackages == 3

AllocationInput(name, score, category) ==
    [packageName |-> name, score |-> I(score), category |-> category]

PackagePool ==
    {AllocationInput("zero-pkg", 0, "critical"),
     AllocationInput("critical-pkg", 20, "critical"),
     AllocationInput("pkg1", 33, "needs-support"),
     AllocationInput("pkg2", 50, "needs-support"),
     AllocationInput("stable-pkg", 66, "stable"),
     AllocationInput("near-full-pkg", 99, "stable"),
     AllocationInput("full-pkg", 100, "stable"),
     AllocationInput("over-pkg", 120, "stable"),
     AllocationInput("thriving-pkg", 76, "thriving"),
     AllocationInput("corp1", 95, "corporate"),
     AllocationInput("corp2", 20, "corporate")}

Budgets == {Zero, I(100), I(1000), Rat(2499, 100)}

InitAlloc ==
    /\ pc = "ready"
    /\ packages \in UNION {[1..n -> PackagePool] : n \in 0..MaxPackages}
    /\ totalBudget \in Budgets
    /\ allocation = <<>>
    /\ ScoreUnused
    /\ FormatUnused
    /\ FundingUnused
    /\ AnalyzeUnused
    /\ CrawlUnused

CallCalculateAllocation ==
    /\ pc = "ready"
    /\ allocation' = calculateAllocation(packages, totalBudget)
    /\ pc' = "done"
    /\ UNCHANGED <<packages, totalBudget, scoreVars, formatVars, fundingVars, analyzeVars, crawlVars>>

NextAlloc == CallCalculateAllocation

SpecAlloc == InitAlloc /\ [][NextAlloc]_vars

---------------------------------------------------------------------------
(* Funding helpers: formatAmountRange and formatMonthlyRange.              *)

\* Infinity: greater than every number under RLt and RLe.
Infinity == <<1, 0>>

Range(min, max, rangeLabel) == [min |-> min, max |-> max, label |-> rangeLabel]

ranges ==
    <<Range(Zero, I(100), "<$100"),
      Range(I(100), I(500), "$100-500"),
      Range(I(500), I(1000), "$500-1K"),
      Range(I(1000), I(5000), "$1K-5K"),
      Range(I(5000), I(10000), "$5K-10K"),
      Range(I(10000), I(25000), "$10K-25K"),
      Range(I(25000), I(50000), "$25K-50K"),
      Range(I(50000), I(100000), "$50K-100K"),
      Range(I(100000), I(250000), "$100K-250K"),
      Range(I(250000), I(500000), "$250K-500K"),
      Range(I(500000), I(1000000), "$500K-1M"),
      Range(I(1000000), Infinity, ">$1M")>>

\* A range closed at its upper edge and open at its lower one.
InRangeUpperInclusive(a, range) == RLt(range.min, a) /\ RLe(a, range.max)

\* amount >= range.min && amount < range.max
InRange(a, range) == RLe(range.min, a) /\ RLt(a, range.max)

\* amount == null || amount <= 0
NoAmount(a) == a = None \/ RLe(a[1], Zero)

\* The for loop returns the label of the first range that holds the amount,
\* and the statement after the loop returns ">$1M".
formatAmountRange(a) ==
    IF NoAmount(a) THEN None
    ELSE LET hits == {i \in 1..Len(ranges) : InRange(a[1], ranges[i])}
         IN  IF hits = {} THEN Some(">$1M")
             ELSE Some(ranges[CHOOSE i \in hits : \A j \in hits : i <= j].label)

\* formatMonthlyRange applied to the yearly amount undivided.
formatMonthlyRangeOfYearly(yearlyAmount) ==
    IF NoAmount(yearlyAmount) THEN None
    ELSE LET range == formatAmountRange(yearlyAmount)
         IN  IF TruthyString(range) THEN Some(range[1] \o "/mo") ELSE None

formatMonthlyRange(yearlyAmount) ==
    IF NoAmount(yearlyAmount) THEN None
    ELSE LET monthly == RDiv(yearlyAmount[1], I(12))
             range == formatAmountRange(Some(monthly))
         IN  IF TruthyString(range) THEN Some(range[1] \o "/mo") ELSE None

---------------------------------------------------------------------------
(* SpecFormat: both formatters applied to amounts around every range edge. *)

MaxHalfSteps == 2

\* Amounts within MaxHalfSteps half dollars of an edge, and twelve times
\* each of them, so that a yearly amount lands on each monthly edge.
AmountsNearEdges ==
    {Rat(m * (2 * ranges[i].min[1] + k), 2) :
        m \in {1, 12}, i \in 1..Len(ranges), k \in -MaxHalfSteps..MaxHalfSteps}

Amounts == {None} \cup {Some(a) : a \in AmountsNearEdges \cup {I(-5), I(1234)}}

InitFormat ==
    /\ pc = "ready"
    /\ amount \in Amounts
    /\ label = NotCalled
    /\ monthlyLabel = NotCalled
    /\ ScoreUnused
    /\ AllocUnused
    /\ FundingUnused
    /\ AnalyzeUnused
    /\ CrawlUnused

CallFormatAmountRange ==
    /\ label = NotCalled
    /\ label' = Returned(formatAmountRange(amount))
    /\ UNCHANGED <<pc, amount, monthlyLabel, scoreVars, allocVars, fundingVars, analyzeVars, crawlVars>>

CallFormatMonthlyRange ==
    /\ monthlyLabel = NotCalled
    /\ monthlyLabel' = Returned(formatMonthlyRange(amount))
    /\ UNCHANGED <<pc, amount, label, scoreVars, allocVars, fundingVars, analyzeVars, crawlVars>>

NextFormat == CallFormatAmountRange \/ CallFormatMonthlyRange

SpecFormat == InitFormat /\ [][NextFormat]_vars

---------------------------------------------------------------------------
(* Funding helpers: buildFundingSummary and hasFundingData.                *)

\* x ?? y on optional values
Nullish(o, alt) == IF o = None THEN alt ELSE o

TopSponsor(name, imageUrl, profileUrl) ==
    [name |-> name, imageUrl |-> imageUrl, profileUrl |-> profileUrl]

\* A sponsor as the GitHub crawler stores it in the jsonb column.
RawSponsor(name, avatarUrl, imageUrl, profileUrl) ==
    [name |-> name, avatarUrl |-> avatarUrl, imageUrl |-> imageUrl, profileUrl |-> profileUrl]

\* The value of a jsonb column: null, an array of items, or another object.
JsonNull == [kind |-> "null", items |-> <<>>]
JsonObject == [kind |-> "object", items |-> <<>>]
JsonArray(items) == [kind |-> "array", items |-> items]

FundingSummary(platform, profileUrl, balanceRange, monthlyIncomeRange, sponsorCount, goalProgress, topSponsors) ==
    [platform |-> platform, profileUrl |-> profileUrl, balanceRange |-> balanceRange,
     monthlyIncomeRange |-> monthlyIncomeRange, sponsorCount |-> sponsorCount,
     goalProgress |-> goalProgress, topSponsors |-> topSponsors]

\* x || 0 on number | null | undefined
OrZeroIfFalsy(o) == IF TruthyNumber(o) THEN o[1] ELSE Zero

OpenCollectiveSummary(p) ==
    FundingSummary("opencollective",
                   "https://opencollective.com/" \o p.ocSlug[1],
                   formatAmountRange(p.ocBalance),
                   formatMonthlyRange(p.ocYearlyIncome),
                   OrZeroIfFalsy(p.ocBackersCount),
                   Nullish(p.ocGoalProgress, None),
                   IF p.ocTopSponsors = None THEN <<>> ELSE p.ocTopSponsors[1])

\* NormalizeSponsor preferring imageUrl to avatarUrl.
NormalizeSponsorImageFirst(sp) ==
    TopSponsor(sp.name, Nullish(sp.imageUrl, Nullish(sp.avatarUrl, None)), sp.profileUrl)

\* s.avatarUrl ?? s.imageUrl ?? null
NormalizeSponsor(sp) ==
    TopSponsor(sp.name, Nullish(sp.avatarUrl, Nullish(sp.imageUrl, None)), sp.profileUrl)

GithubSummary(p) ==
    LET rawSponsors == p.ghTopSponsors
        ghSponsors == IF rawSponsors.kind = "array" THEN rawSponsors.items ELSE <<>>
        normalizedSponsors == [i \in 1..Len(ghSponsors) |-> NormalizeSponsor(ghSponsors[i])]
    IN  FundingSummary("github",
                       "https://github.com/sponsors/" \o p.repositoryOwner[1],
                       None,
                       None,
                       OrZeroIfFalsy(p.ghSponsorsCount),
                       None,
                       normalizedSponsors)

\* buildFundingSummary with the GitHub Sponsors test before the OpenCollective one.
buildFundingSummaryGithubFirst(p) ==
    IF TruthyBoolean(p.ghHasSponsorsListing) /\ TruthyString(p.repositoryOwner)
    THEN Some(GithubSummary(p))
    ELSE IF TruthyString(p.ocSlug)
    THEN Some(OpenCollectiveSummary(p))
    ELSE None

buildFundingSummary(p) ==
    IF TruthyString(p.ocSlug)
    THEN Some(OpenCollectiveSummary(p))
    ELSE IF TruthyBoolean(p.ghHasSponsorsListing) /\ TruthyString(p.repositoryOwner)
    THEN Some(GithubSummary(p))
    ELSE None

\* hasFundingData without the test of repositoryOwner.
hasFundingDataListingOnly(p) ==
    TruthyString(p.ocSlug) \/ TruthyBoolean(p.ghHasSponsorsListing)

hasFundingData(p) ==
    \/ TruthyString(p.ocSlug)
    \/ TruthyBoolean(p.ghHasSponsorsListing) /\ TruthyString(p.repositoryOwner)

---------------------------------------------------------------------------
(* SpecFunding: both helpers applied to the same package.                  *)

MaxSponsors == 2

\* Stored sponsors with and without each of the two image fields.
SponsorPool ==
    {RawSponsor("alice", Some("https://avatars/alice"), Some("https://images/alice"),
                "https://github.com/alice"),
     RawSponsor("bob", Some("https://avatars/bob"), None, "https://github.com/bob"),
     RawSponsor("carol", None, Some("https://images/carol"), "https://github.com/carol"),
     RawSponsor("dave", None, None, "https://github.com/dave"),
     RawSponsor("erin", Some(""), Some("https://images/erin"), "https://github.com/erin")}

GhTopSponsorsValues ==
    {JsonNull, JsonObject}
        \cup {JsonArray(items) : items \in UNION {[1..n -> SponsorPool] : n \in 0..MaxSponsors}}

PackagesWithFunding ==
    [ocSlug               : {None, Some(""), Some("webpack")},
     ocBalance            : {None, Some(I(50000))},
     ocYearlyIncome       : {None, Some(I(12000))},
     ocBackersCount       : {None, Some(I(5))},
     ocGoalProgress       : {None, Some(Zero)},
     ocTopSponsors        : {None, Some(<<TopSponsor("Acme", None, "https://opencollective.com/acme")>>)},
     ghHasSponsorsListing : {None, Some(FALSE), Some(TRUE)},
     ghSponsorsCount      : {None, Some(I(3))},
     ghTopSponsors        : GhTopSponsorsValues,
     repositoryOwner      : {None, Some(""), Some("sindresorhus")}]

InitFunding ==
    /\ pc = "ready"
    /\ fundingPkg \in PackagesWithFunding
    /\ summary = NotCalled
    /\ hasData = NotCalled
    /\ ScoreUnused
    /\ AllocUnused
    /\ FormatUnused
    /\ AnalyzeUnused
    /\ CrawlUnused

CallBuildFundingSummary ==
    /\ summary = NotCalled
    /\ summary' = Returned(buildFundingSummary(fundingPkg))
    /\ UNCHANGED <<pc, fundingPkg, hasData, scoreVars, allocVars, formatVars, analyzeVars, crawlVars>>

CallHasFundingData ==
    /\ hasData = NotCalled
    /\ hasData' = Returned(hasFundingData(fundingPkg))
    /\ UNCHANGED <<pc, fundingPkg, summary, scoreVars, allocVars, formatVars, analyzeVars, crawlVars>>

NextFunding == CallBuildFundingSummary \/ CallHasFundingData

SpecFunding == InitFunding /\ [][NextFunding]_vars

---------------------------------------------------------------------------
(* The analyze handlers: POST of the web app (route.ts) and app.post('/')  *)
(* of the API.  An object is the sequence of its entries in insertion      *)
(* order; a key that is missing and a key that holds null are both None.   *)

\* An entry of a dependencies object: package name and version range.
Dependency(name, version) == [name |-> name, version |-> version]

HasKey(obj, key) == \E i \in 1..Len(obj) : obj[i].name = key

ValueOf(obj, key) == obj[CHOOSE i \in 1..Len(obj) : obj[i].name = key].version

\* { ...a, ...b }: the keys of a in their order with the values of b where b
\* has the key, then the keys only b has.
ObjectSpread(a, b) ==
    [i \in 1..Len(a) |->
        IF HasKey(b, a[i].name) THEN Dependency(a[i].name, ValueOf(b, a[i].name)) ELSE a[i]]
        \o SelectSeq(b, LAMBDA e : ~HasKey(a, e.name))

\* allDeps, for a body whose dependencies are there
AllDeps(body) ==
    ObjectSpread(body.dependencies[1],
                 IF body.devDependencies = None THEN <<>> ELSE body.devDependencies[1])

Response(status, error, body) == [status |-> status, error |-> error, body |-> body]

\* The three early returns with status 400; None when the body passes them.
ValidationError(body) ==
    IF body.dependencies = None
    THEN Some(Response(400, "dependencies object required", None))
    ELSE IF Len(AllDeps(body)) = 0
    THEN Some(Response(400, "No dependencies provided", None))
    ELSE IF Len(AllDeps(body)) > 500
    THEN Some(Response(400, "Too many dependencies (max 500)", None))
    ELSE None

\* Time is counted in hours.  Date.now() reads Now.
Now == 24000

\* pkg.lastPublish ? Math.floor((Date.now() - lastPublish) / one day) : null
DaysSinceLastPublish(row) ==
    IF row.lastPublish = None THEN None
    ELSE Some(MathFloor(RDiv(I(Now - row.lastPublish[1]), I(24))))

\* ScoringInputsOf with the Sponsors listing of the row passed as githubSponsors.
ScoringInputsOfWithSponsors(row) ==
    [weeklyDownloads      |-> row.weeklyDownloads,
     dependentCount       |-> row.dependentCount,
     ocBalance            |-> row.ocBalance,
     ocYearlyIncome       |-> row.ocYearlyIncome,
     githubSponsors       |-> row.ghHasSponsorsListing,
     corporateBacking     |-> row.corporateBacking,
     maintainerCount      |-> Some(I(Len(row.maintainers))),
     daysSinceLastPublish |-> DaysSinceLastPublish(row),
     aiDisruptionFlag     |-> row.aiDisruptionFlag,
     maintainerStatus     |-> row.maintainerStatus]

\* The object passed to calculateScore; githubSponsors is not among its keys.
ScoringInputsOf(row) ==
    [weeklyDownloads      |-> row.weeklyDownloads,
     dependentCount       |-> row.dependentCount,
     ocBalance            |-> row.ocBalance,
     ocYearlyIncome       |-> row.ocYearlyIncome,
     githubSponsors       |-> None,
     corporateBacking     |-> row.corporateBacking,
     maintainerCount      |-> Some(I(Len(row.maintainers))),
     daysSinceLastPublish |-> DaysSinceLastPublish(row),
     aiDisruptionFlag     |-> row.aiDisruptionFlag,
     maintainerStatus     |-> row.maintainerStatus]

\* x?.getTime() || 0 and x || 0 on the columns of a package maintainer
CommitTime(m) == IF m.lastCommitAt = None THEN 0 ELSE m.lastCommitAt[1]

\* The comparator of topMaintainers is negative: a sorts before b.
MoreRecent(a, b) ==
    IF CommitTime(b) # CommitTime(a) THEN CommitTime(b) < CommitTime(a)
    ELSE RLt(OrZeroIfFalsy(b.commitPercentage), OrZeroIfFalsy(a.commitPercentage))

RECURSIVE InsertMaintainer(_, _)
InsertMaintainer(sorted, m) ==
    IF sorted = <<>> THEN <<m>>
    ELSE IF MoreRecent(m, Head(sorted))
    THEN <<m>> \o sorted
    ELSE <<Head(sorted)>> \o InsertMaintainer(Tail(sorted), m)

RECURSIVE SortMaintainers(_)
SortMaintainers(ms) ==
    IF ms = <<>> THEN <<>>
    ELSE InsertMaintainer(SortMaintainers(SubSeq(ms, 1, Len(ms) - 1)), ms[Len(ms)])

\* topMaintainers: filter, stable sort, slice(0, 5), map
TopMaintainers(row) ==
    LET linked == SelectSeq(row.maintainers, LAMBDA m : m.maintainer # None)
        sorted == SortMaintainers(linked)
        top == SubSeq(sorted, 1, IF Len(sorted) < 5 THEN Len(sorted) ELSE 5)
    IN  [i \in 1..Len(top) |->
            [name             |-> top[i].maintainer[1].name,
             githubUsername   |-> top[i].maintainer[1].githubUsername,
             commitPercentage |-> top[i].commitPercentage,
             recentCommits    |-> top[i].recentCommits,
             lastCommitAt     |-> top[i].lastCommitAt]]

\* pkg.maintainers.find((m) => m.isPrimary)?.maintainer, then name and
\* githubUsername of it, or null
PrimaryMaintainer(row) ==
    LET primary == {i \in 1..Len(row.maintainers) : TruthyBoolean(row.maintainers[i].isPrimary)}
        first == CHOOSE i \in primary : \A j \in primary : i <= j
    IN  IF primary = {} \/ row.maintainers[first].maintainer = None THEN None
        ELSE Some([name           |-> row.maintainers[first].maintainer[1].name,
                   githubUsername |-> row.maintainers[first].maintainer[1].githubUsername])

\* An element of analyzed.  A key the handler does not write is None.
Entry(name, version, found, score, category) ==
    [name |-> name, version |-> version, found |-> found,
     sustainabilityScore |-> score, category |-> category,
     scoreExplanation |-> None, corporateBacking |-> None, aiDisruptionFlag |-> None,
     weeklyDownloads |-> None, fundingSources |-> <<>>, fundingSummary |-> None,
     maintainers |-> None, primaryMaintainer |-> None, allocation |-> None]

\* NotFoundEntry with a placeholder score of 0.
NotFoundEntryScoreZero(name, version) ==
    [Entry(name, version, FALSE, Zero, "stable") EXCEPT !.maintainers = Some(<<>>)]

\* NotFoundEntry with the category corporate, which has no allocation weight.
NotFoundEntryCorporate(name, version) ==
    [Entry(name, version, FALSE, I(50), "corporate") EXCEPT !.maintainers = Some(<<>>)]

\* if (!pkg) return { name, version, found: false, sustainabilityScore: 50, ... }
NotFoundEntry(name, version) ==
    [Entry(name, version, FALSE, I(50), "stable") EXCEPT !.maintainers = Some(<<>>)]

\* The keys both handlers write for a package that has a row.
FoundEntry(name, version, row) ==
    LET score == calculateScore(ScoringInputsOf(row), DEFAULT_WEIGHTS)
    IN  [Entry(name, version, TRUE, score.score, score.category) EXCEPT
            !.scoreExplanation = Some(score.explanation),
            !.corporateBacking = row.corporateBacking,
            !.aiDisruptionFlag = row.aiDisruptionFlag,
            !.weeklyDownloads = row.weeklyDownloads,
            !.fundingSources = row.fundingSources]

\* The package fields POST hands to buildFundingSummary.
FundingFieldsOf(row) ==
    [ocSlug               |-> row.ocSlug,
     ocBalance            |-> row.ocBalance,
     ocYearlyIncome       |-> row.ocYearlyIncome,
     ocBackersCount       |-> row.ocBackersCount,
     ocGoalProgress       |-> row.ocGoalProgress,
     ocTopSponsors        |-> row.ocTopSponsors,
     ghHasSponsorsListing |-> row.ghHasSponsorsListing,
     ghSponsorsCount      |-> row.ghSponsorsCount,
     ghTopSponsors        |-> row.ghTopSponsors,
     repositoryOwner      |-> row.repositoryOwner]

\* analyzed of POST: packageNames.map over the rows the query returned
PostAnalyzed(deps, table) ==
    [i \in 1..Len(deps) |->
        IF table[deps[i].name] = None THEN NotFoundEntry(deps[i].name, deps[i].version)
        ELSE [FoundEntry(deps[i].name, deps[i].version, table[deps[i].name][1]) EXCEPT
                 !.fundingSummary = buildFundingSummary(FundingFieldsOf(table[deps[i].name][1])),
                 !.maintainers = Some(TopMaintainers(table[deps[i].name][1]))]]

\* analyzed of app.post('/')
HonoAnalyzed(deps, table) ==
    [i \in 1..Len(deps) |->
        IF table[deps[i].name] = None THEN NotFoundEntry(deps[i].name, deps[i].version)
        ELSE [FoundEntry(deps[i].name, deps[i].version, table[deps[i].name][1]) EXCEPT
                 !.primaryMaintainer = PrimaryMaintainer(table[deps[i].name][1])]]

\* body.budget || 100
BudgetOf(body) == IF TruthyNumber(body.budget) THEN body.budget[1] ELSE I(100)

AllocationInputsOf(analyzed) ==
    [i \in 1..Len(analyzed) |->
        [packageName |-> analyzed[i].name,
         score       |-> analyzed[i].sustainabilityScore,
         category    |-> analyzed[i].category]]

\* allocationMap.get(name): the last allocation of that name, if any
AllocationMapGet(alloc, name) ==
    LET hits == {i \in 1..Len(alloc) : alloc[i].packageName = name}
    IN  IF hits = {} THEN None
        ELSE Some(alloc[CHOOSE i \in hits : \A j \in hits : j <= i])

PackagesWithAllocation(analyzed, alloc) ==
    [i \in 1..Len(analyzed) |->
        [analyzed[i] EXCEPT !.allocation = AllocationMapGet(alloc, analyzed[i].name)]]

\* p.allocation?.suggestedAmount || 0
SuggestedOrZero(p) == IF p.allocation = None THEN Zero ELSE p.allocation[1].suggestedAmount

\* InsertByAmount for a sort in ascending order.
RECURSIVE InsertByAmountAscending(_, _)
InsertByAmountAscending(sorted, p) ==
    IF sorted = <<>> THEN <<p>>
    ELSE IF RLt(SuggestedOrZero(p), SuggestedOrZero(Head(sorted)))
    THEN <<p>> \o sorted
    ELSE <<Head(sorted)>> \o InsertByAmountAscending(Tail(sorted), p)

RECURSIVE InsertByAmount(_, _)
InsertByAmount(sorted, p) ==
    IF sorted = <<>> THEN <<p>>
    ELSE IF RLt(SuggestedOrZero(Head(sorted)), SuggestedOrZero(p))
    THEN <<p>> \o sorted
    ELSE <<Head(sorted)>> \o InsertByAmount(Tail(sorted), p)

\* packagesWithAllocation.sort((a, b) => b's amount - a's amount), a stable sort
RECURSIVE SortByAmount(_)
SortByAmount(ps) ==
    IF ps = <<>> THEN <<>>
    ELSE InsertByAmount(SortByAmount(SubSeq(ps, 1, Len(ps) - 1)), ps[Len(ps)])

CountFound(analyzed, found) ==
    Cardinality({i \in 1..Len(analyzed) : analyzed[i].found = found})

CountCategory(analyzed, category) ==
    Cardinality({i \in 1..Len(analyzed) : analyzed[i].category = category})

Summary(analyzed) ==
    [total      |-> Len(analyzed),
     found      |-> CountFound(analyzed, TRUE),
     notFound   |-> CountFound(analyzed, FALSE),
     byCategory |-> [c \in Categories |-> CountCategory(analyzed, c)]]

\* Everything from the budget to the JSON of the response, the same statements
\* in both handlers.
AnalyzeResponse(analyzed, body) ==
    LET budget == BudgetOf(body)
        alloc == calculateAllocation(AllocationInputsOf(analyzed), budget)
    IN  Response(200, "",
                 Some([summary  |-> Summary(analyzed),
                       budget   |-> budget,
                       packages |-> SortByAmount(PackagesWithAllocation(analyzed, alloc))]))

---------------------------------------------------------------------------
(* The package routes of the API: GET /packages/:name, POST /packages/batch *)

\* { ...pkg, sustainabilityScore, category, scoreExplanation }: the columns of
\* the row with the result of calculateScore on them.
ScoredPackage(name, row) ==
    LET score == calculateScore(ScoringInputsOf(row), DEFAULT_WEIGHTS)
    IN  [sustainabilityScore |-> score.score,
         category            |-> score.category,
         scoreExplanation    |-> score.explanation] @@ [name |-> name] @@ row

\* app.get('/:name')
PackageResponse(name, table) ==
    IF table[name] = None
    THEN Response(404, "Package not found", Some([name |-> name]))
    ELSE Response(200, "", Some(ScoredPackage(name, table[name][1])))

\* body.packages.slice(0, 200)
BatchNames(body) ==
    SubSeq(body.packages[1], 1, IF Len(body.packages[1]) < 200 THEN Len(body.packages[1]) ELSE 200)

\* packageNames.map: in the order requested, { name, found: false } for a
\* name without a row
BatchEntries(names, table) ==
    [i \in 1..Len(names) |->
        IF table[names[i]] = None THEN [name |-> names[i], found |-> FALSE]
        ELSE [found |-> TRUE] @@ ScoredPackage(names[i], table[names[i]][1])]

\* app.post('/batch')
BatchResponse(body, table) ==
    IF body.packages = None
    THEN Response(400, "packages array required", None)
    ELSE Response(200, "", Some([packages |-> BatchEntries(BatchNames(body), table)]))

---------------------------------------------------------------------------
(* SpecAnalyze: one request handled by either handler over a small table.  *)

MaxDeps == 2

PackageNames == {"react", "lodash", "left-pad"}

\* The row db.insert(packages).values({ name, enrichmentStatus: 'pending' })
\* creates: the column defaults, no maintainers, no funding sources.
SeededRow ==
    [weeklyDownloads |-> None, dependentCount |-> None, lastPublish |-> None,
     ocSlug |-> None, ocBalance |-> None, ocYearlyIncome |-> None,
     ocBackersCount |-> None, ocGoalProgress |-> None, ocTopSponsors |-> None,
     ghHasSponsorsListing |-> None, ghSponsorsCount |-> None, ghTopSponsors |-> JsonNull,
     repositoryOwner |-> None, corporateBacking |-> None, aiDisruptionFlag |-> Some(FALSE),
     maintainerStatus |-> None, enrichmentStatus |-> "pending", lastEnrichedAt |-> None,
     maintainers |-> <<>>, fundingSources |-> <<>>]

PackageMaintainer(name, githubUsername, isPrimary, commitPercentage, lastCommitAt) ==
    [maintainer       |-> IF name = "" THEN None
                          ELSE Some([name |-> name, githubUsername |-> githubUsername]),
     isPrimary        |-> Some(isPrimary),
     commitPercentage |-> commitPercentage,
     recentCommits    |-> None,
     lastCommitAt     |-> lastCommitAt]

\* One maintainer, last published 800 days ago, no funding.
SoloRow ==
    [SeededRow EXCEPT
        !.weeklyDownloads = Some(I(999999)), !.dependentCount = Some(I(999)),
        !.lastPublish = Some(Now - 800 * 24 - 5),
        !.repositoryOwner = Some("sindresorhus"),
        !.enrichmentStatus = "completed",
        !.maintainers = <<PackageMaintainer("Sindre", "sindresorhus", TRUE, Some(I(90)), Some(Now - 48))>>]

\* SoloRow with a GitHub Sponsors listing.
SponsoredSoloRow ==
    [SoloRow EXCEPT !.ghHasSponsorsListing = Some(TRUE), !.ghSponsorsCount = Some(I(12))]

CorporateRow ==
    [SeededRow EXCEPT
        !.weeklyDownloads = Some(I(9999999)), !.dependentCount = Some(I(99999)),
        !.lastPublish = Some(Now - 30),
        !.corporateBacking = Some("Meta"),
        !.enrichmentStatus = "completed",
        !.maintainers = <<PackageMaintainer("Dan", "gaearon", FALSE, Some(I(40)), Some(Now - 100)),
                          PackageMaintainer("Sophie", "sophiebits", TRUE, Some(I(40)), Some(Now - 10))>>]

\* An OpenCollective collective, three maintainers of which one has no
\* maintainer record, published yesterday.
FundedRow ==
    [SeededRow EXCEPT
        !.weeklyDownloads = Some(I(99999)), !.dependentCount = Some(I(99)),
        !.lastPublish = Some(Now - 24),
        !.ocSlug = Some("webpack"), !.ocBalance = Some(I(200000)),
        !.ocYearlyIncome = Some(I(30000)), !.ocBackersCount = Some(I(5)),
        !.enrichmentStatus = "completed",
        !.fundingSources = <<"opencollective">>,
        !.maintainers = <<PackageMaintainer("Tobias", "sokra", FALSE, None, None),
                          PackageMaintainer("", "", FALSE, Some(I(10)), Some(Now - 10)),
                          PackageMaintainer("Sean", "thelarkinn", FALSE, Some(I(5)), None)>>]

RowPool == {SeededRow, SoloRow, SponsoredSoloRow, CorporateRow, FundedRow}

Tables == [PackageNames -> {None} \cup {Some(row) : row \in RowPool}]

\* Sequences of different names, no longer than MaxDeps.
NameLists ==
    {names \in UNION {[1..n -> PackageNames] : n \in 0..MaxDeps} :
        \A i, j \in 1..Len(names) : i # j => names[i] # names[j]}

DependenciesOf(names, version) == [i \in 1..Len(names) |-> Dependency(names[i], version)]

AnalyzeRequests ==
    [dependencies    : {None} \cup {Some(DependenciesOf(names, "^1.0.0")) : names \in NameLists},
     devDependencies : {None, Some(DependenciesOf(<<"lodash">>, "^2.0.0"))},
     budget          : {None, Some(Zero), Some(I(1000)), Some(Rat(1, 100))}]

InitAnalyze ==
    /\ pc = "ready"
    /\ db \in Tables
    /\ request \in AnalyzeRequests
    /\ response = NotCalled
    /\ ScoreUnused
    /\ AllocUnused
    /\ FormatUnused
    /\ FundingUnused
    /\ CrawlUnused

\* The table after the insert of the unknown names, onConflictDoNothing.
Seed(table, deps) ==
    [n \in PackageNames |->
        IF HasKey(deps, n) /\ table[n] = None THEN Some(SeededRow) ELSE table[n]]

\* POST of route.ts.  A rejected query is caught and answered with 500.  The
\* insert of the unknown names is not awaited and its failure is only logged:
\* the rows are there afterwards, or they are not.
AnalyzePost ==
    /\ pc = "ready"
    /\ request \in AnalyzeRequests
    /\ pc' = "done"
    /\ IF ValidationError(request) # None
       THEN response' = Returned(ValidationError(request)[1]) /\ db' = db
       ELSE \/ response' = Returned(Response(500, "Internal server error", None)) /\ db' = db
            \/ /\ response' =
                       Returned(AnalyzeResponse(PostAnalyzed(AllDeps(request), db), request))
                /\ db' \in {db, Seed(db, AllDeps(request))}
    /\ UNCHANGED <<request, scoreVars, allocVars, formatVars, fundingVars, crawlVars>>

\* app.post('/') of the API: the same without the insert, and with nothing
\* that catches a rejected query, which then leaves the handler unanswered.
AnalyzeHono ==
    /\ pc = "ready"
    /\ request \in AnalyzeRequests
    /\ pc' = "done"
    /\ response' =
           IF ValidationError(request) # None
           THEN Returned(ValidationError(request)[1])
           ELSE Returned(AnalyzeResponse(HonoAnalyzed(AllDeps(request), db), request))
    /\ UNCHANGED <<db, request, scoreVars, allocVars, formatVars, fundingVars, crawlVars>>

NextAnalyze == AnalyzePost \/ AnalyzeHono

SpecAnalyze == InitAnalyze /\ [][NextAnalyze]_vars

---------------------------------------------------------------------------
(* SpecRoutes: one request to any of the four routes that score packages:
   the two analyze handlers and the two package routes.                    *)

\* The route parameter of GET /packages/:name.
PackageRequests == [name : PackageNames]

\* The body of POST /packages/batch.
BatchRequests == [packages : {None} \cup {Some(names) : names \in NameLists}]

\* The analyze requests with a budget and no devDependencies.
BudgetedRequests ==
    {body \in AnalyzeRequests : body.devDependencies = None /\ body.budget = Some(I(1000))}

InitRoutes ==
    /\ pc = "ready"
    /\ db \in Tables
    /\ request \in BudgetedRequests \cup PackageRequests \cup BatchRequests
    /\ response = NotCalled
    /\ ScoreUnused
    /\ AllocUnused
    /\ FormatUnused
    /\ FundingUnused
    /\ CrawlUnused

\* app.get('/:name') of the package routes.
GetPackage ==
    /\ pc = "ready"
    /\ request \in PackageRequests
    /\ pc' = "done"
    /\ response' = Returned(PackageResponse(request.name, db))
    /\ UNCHANGED <<db, request, scoreVars, allocVars, formatVars, fundingVars, crawlVars>>

\* app.post('/batch') of the package routes.
PostBatch ==
    /\ pc = "ready"
    /\ request \in BatchRequests
    /\ pc' = "done"
    /\ response' = Returned(BatchResponse(request, db))
    /\ UNCHANGED <<db, request, scoreVars, allocVars, formatVars, fundingVars, crawlVars>>

NextRoutes == AnalyzePost \/ AnalyzeHono \/ GetPackage \/ PostBatch

SpecRoutes == InitRoutes /\ [][NextRoutes]_vars

---------------------------------------------------------------------------
(* The npm registry crawler: crawl and enrichPackage.  The model keeps the
   columns of a package that the handlers above read; latestVersion,
   repositoryUrl, repositoryName, npmFundingUrl and updatedAt are written by
   the crawler and read by nothing here.                                   *)

\* Stale threshold, in days.
STALE_DAYS == 7

\* The owner parseRepositoryUrl finds: that of a GitHub URL, or null.
RepositoryOwner(repository) ==
    IF repository = None THEN None
    ELSE IF repository[1].host = "github.com" THEN Some(repository[1].owner)
    ELSE None

\* latestVersion ? npmData.time?.[latestVersion] : null, as a Date or null
LastPublishOf(npmData) ==
    IF npmData.latest = None THEN None
    ELSE IF HasKey(npmData.time, npmData.latest[1]) THEN Some(ValueOf(npmData.time, npmData.latest[1]))
    ELSE None

\* The rows the loop over npmData.maintainers inserts into packageMaintainers,
\* which has no unique key: nothing conflicts.  getOrCreateMaintainer gives
\* the maintainer of that npm user name.
LinkedMaintainers(npmData) ==
    LET named == {i \in 1..Len(npmData.maintainers) : npmData.maintainers[i] # ""}
        Row(i) == [maintainer       |-> Some([name |-> npmData.maintainers[i],
                                              githubUsername |-> None]),
                   isPrimary        |-> Some(i = 1),
                   commitPercentage |-> None,
                   recentCommits    |-> None,
                   lastCommitAt     |-> None]
    IN  [k \in 1..Cardinality(named) |->
            Row(CHOOSE i \in named : Cardinality({j \in named : j <= i}) = k)]

\* The row after enrichPackage, which returns false when npmData is null.
FailedRow(row) == [row EXCEPT !.enrichmentStatus = "failed"]

EnrichedRow(row, npmData, downloads, now) ==
    [row EXCEPT !.lastPublish = LastPublishOf(npmData),
                !.weeklyDownloads = downloads,
                !.repositoryOwner = RepositoryOwner(npmData.repository),
                !.enrichmentStatus = "completed",
                !.lastEnrichedAt = Some(now),
                !.maintainers = @ \o LinkedMaintainers(npmData)]

\* NeedsEnrichment that takes the failed packages as well.
NeedsEnrichmentOrFailed(row, now) ==
    \/ row.enrichmentStatus \in {"pending", "failed"}
    \/ /\ row.enrichmentStatus = "completed"
       /\ row.lastEnrichedAt # None
       /\ row.lastEnrichedAt[1] < now - STALE_DAYS * 24
    \/ /\ row.enrichmentStatus = "completed"
       /\ row.lastEnrichedAt = None

\* The where clause of packagesToEnrich; staleDate is now less STALE_DAYS.
NeedsEnrichment(row, now) ==
    \/ row.enrichmentStatus = "pending"
    \/ /\ row.enrichmentStatus = "completed"
       /\ row.lastEnrichedAt # None
       /\ row.lastEnrichedAt[1] < now - STALE_DAYS * 24
    \/ /\ row.enrichmentStatus = "completed"
       /\ row.lastEnrichedAt = None

ToEnrich(table, now) ==
    {n \in DOMAIN table : table[n] # None /\ NeedsEnrichment(table[n][1], now)}

\* The query has no order by: the rows come in any order.
Orderings(names) ==
    {order \in [1..Cardinality(names) -> names] :
        \A i, j \in 1..Cardinality(names) : i # j => order[i] # order[j]}

Crawler(at, packagesToEnrich, i, success, failed, runs) ==
    [pc |-> at, packagesToEnrich |-> packagesToEnrich, i |-> i,
     success |-> success, failed |-> failed, runs |-> runs]

---------------------------------------------------------------------------
(* SpecCrawl: runs of the crawler, one after the other, over a small table. *)

MaxRuns == 2

\* A package as the registry answers for it: null, or its document.
NpmDocument ==
    [latest       |-> Some("1.0.1"),
     time         |-> <<Dependency("1.0.0", Now - 900), Dependency("1.0.1", Now - 48)>>,
     maintainers  |-> <<"jdalton", "">>,
     repository   |-> Some([host |-> "github.com", owner |-> "lodash"])]

NpmResults == {None, Some(NpmDocument)}

DownloadResults == {Some(I(99999))}

\* The rows a table holds before a run: inserted and never enriched, left
\* behind by a run that ended early, failed, or completed never, long ago or
\* yesterday.
CrawlRows ==
    {SeededRow,
     [SeededRow EXCEPT !.enrichmentStatus = "in_progress"],
     [SeededRow EXCEPT !.enrichmentStatus = "failed"],
     [SeededRow EXCEPT !.enrichmentStatus = "completed"],
     [SeededRow EXCEPT !.enrichmentStatus = "completed",
                       !.lastEnrichedAt = Some(Now - (STALE_DAYS + 1) * 24)],
     [SeededRow EXCEPT !.enrichmentStatus = "completed",
                       !.lastEnrichedAt = Some(Now - 24)]}

CrawlTables == [PackageNames -> {None} \cup {Some(row) : row \in CrawlRows}]

InitCrawl ==
    /\ pc = "ready"
    /\ db \in CrawlTables
    /\ request = None
    /\ response = NotCalled
    /\ crawler = Crawler("idle", <<>>, 0, 0, 0, 0)
    /\ clock = Now
    /\ ScoreUnused
    /\ AllocUnused
    /\ FormatUnused
    /\ FundingUnused

CrawlFrame == UNCHANGED <<pc, request, response, scoreVars, allocVars, formatVars, fundingVars>>

\* crawl() is called, at once or STALE_DAYS and a day after the last run.
StartCrawl ==
    /\ crawler.pc \in {"idle", "exited"}
    /\ crawler.runs < MaxRuns
    /\ crawler' = Crawler("select", <<>>, 0, 0, 0, crawler.runs + 1)
    /\ clock' \in {clock, clock + (STALE_DAYS + 1) * 24}
    /\ db' = db
    /\ CrawlFrame

\* const packagesToEnrich = await db.select(...).where(...).limit(20000)
SelectPackages ==
    /\ crawler.pc = "select"
    /\ \E order \in Orderings(ToEnrich(db, clock)) :
           crawler' = [crawler EXCEPT
                          !.pc = "loop",
                          !.packagesToEnrich =
                              [i \in 1..(IF Len(order) < 20000 THEN Len(order) ELSE 20000) |->
                                  [name |-> order[i]]]]
    /\ UNCHANGED <<db, clock>>
    /\ CrawlFrame

\* The update that marks packagesToEnrich[i] as in progress.
MarkInProgress ==
    /\ crawler.pc = "loop"
    /\ crawler.i < Len(crawler.packagesToEnrich)
    /\ LET name == crawler.packagesToEnrich[crawler.i + 1].name
       IN  db' = [db EXCEPT ![name] =
                      IF @ = None THEN None
                      ELSE Some([@[1] EXCEPT !.enrichmentStatus = "in_progress"])]
    /\ crawler' = [crawler EXCEPT !.pc = "enrich"]
    /\ clock' = clock
    /\ CrawlFrame

\* enrichPackage(pkg.name) and the rest of the loop body.  A fetch that
\* fails, by status or by exception, gives null.
EnrichPackage ==
    /\ crawler.pc = "enrich"
    /\ LET name == crawler.packagesToEnrich[crawler.i + 1].name
       IN  \E npmData \in NpmResults, downloads \in DownloadResults :
               IF npmData = None
               THEN /\ db' = [db EXCEPT ![name] =
                                 IF @ = None THEN None ELSE Some(FailedRow(@[1]))]
                    /\ crawler' = [crawler EXCEPT !.pc = "loop", !.i = @ + 1,
                                                  !.failed = @ + 1]
               ELSE /\ db' = [db EXCEPT ![name] =
                                 IF @ = None THEN None
                                 ELSE Some(EnrichedRow(@[1], npmData[1], downloads, clock))]
                    /\ crawler' = [crawler EXCEPT !.pc = "loop", !.i = @ + 1,
                                                  !.success = @ + 1]
    /\ clock' = clock
    /\ CrawlFrame

\* The loop is over: process.exit(0).
CrawlComplete ==
    /\ crawler.pc = "loop"
    /\ crawler.i = Len(crawler.packagesToEnrich)
    /\ crawler' = [crawler EXCEPT !.pc = "exited"]
    /\ UNCHANGED <<db, clock>>
    /\ CrawlFrame

\* A query or an update of the database rejects: crawl().catch logs it and
\* the process exits with 1, the table as it is.
CrawlFailed ==
    /\ \/ crawler.pc \in {"select", "enrich"}
       \/ crawler.pc = "loop" /\ crawler.i < Len(crawler.packagesToEnrich)
    /\ crawler' = [crawler EXCEPT !.pc = "exited"]
    /\ UNCHANGED <<db, clock>>
    /\ CrawlFrame

NextCrawl ==
    \/ StartCrawl
    \/ SelectPackages
    \/ MarkInProgress
    \/ EnrichPackage
    \/ CrawlComplete
    \/ CrawlFailed

SpecCrawl == InitCrawl /\ [][NextCrawl]_vars

---------------------------------------------------------------------------
(* Properties of calculateScore, checked under SpecScore.                  *)

\* The weighted path: neither early return is taken.
OnWeightedPath(in) ==
    ~TruthyString(in.maintainerStatus) /\ ~TruthyString(in.corporateBacking)

\* C1: for every input and every weight configuration, the score returned by
\* calculateScore is an integer with 0 <= score <= 100.
C1_ScoreIsIntegerIn0to100 ==
    pc = "done" =>
        /\ result.score[2] = 1
        /\ 0 <= result.score[1]
        /\ result.score[1] <= 100

\* The running score of the weighted path exceeds 100 and is clamped to 100.
C1_Witness ==
    /\ pc = "done"
    /\ OnWeightedPath(inputs)
    /\ RLt(I(100), WeightedState(inputs, weights).score)
    /\ result.score = I(100)

C2_Table(c) ==
    CASE c = "critical" -> 15
      [] c = "needs-support" -> 40
      [] c = "stable" -> 65
      [] c = "thriving" -> 85
      [] c = "corporate" -> 95

\* C2: whenever maintainerStatus is present, the category is maintainerStatus and
\* the score is that of the fixed table, whatever the other fields and the
\* weights are.
C2_MaintainerStatusOverride ==
    pc = "done" /\ inputs.maintainerStatus # None =>
        /\ result.category = inputs.maintainerStatus[1]
        /\ result.score = I(C2_Table(inputs.maintainerStatus[1]))

\* A self-reported critical package that is corporate-backed and well funded,
\* scored with weights other than the defaults.
C2_Witness ==
    /\ pc = "done"
    /\ inputs.maintainerStatus = Some("critical")
    /\ inputs.corporateBacking = Some("Meta")
    /\ inputs.ocBalance = Some(I(200000))
    /\ weights # DEFAULT_WEIGHTS
    /\ result.score = I(15)
    /\ result.category = "critical"

\* C3: whenever maintainerStatus is absent and corporateBacking is a non-empty
\* name, the result is score 95 and category corporate, with exactly one factor
\* whose impact is weights.corporateBacking and one explanation sentence naming
\* the company.
C3_CorporateBackingOverride ==
    pc = "done" /\ inputs.maintainerStatus = None /\ TruthyString(inputs.corporateBacking) =>
        /\ result.score = I(95)
        /\ result.category = "corporate"
        /\ Len(result.factors) = 1
        /\ result.factors[1].impact = weights.corporateBacking
        /\ Len(result.explanation) = 1
        /\ result.explanation[1].str = inputs.corporateBacking[1]

\* A corporate-backed package with every negative signal set, scored with weights
\* other than the defaults.
C3_Witness ==
    /\ pc = "done"
    /\ inputs.maintainerStatus = None
    /\ inputs.corporateBacking = Some("Meta")
    /\ inputs.weeklyDownloads = Some(I(999999999))
    /\ inputs.aiDisruptionFlag = Some(TRUE)
    /\ inputs.maintainerCount = Some(One)
    /\ weights.corporateBacking = I(60)
    /\ result.score = I(95)
    /\ result.factors[1].impact = I(60)

C10_Balances == <<0, 1, 2500, 50000, 99999, 100000, 100001, 200000, 500000>>

C10_ScoreAt(b) ==
    calculateScore([inputs EXCEPT !.ocBalance = Some(I(b))], weights).score

\* C10: on the weighted path, all other inputs fixed, the score is non-decreasing
\* in ocBalance and is the same for every ocBalance >= 100000.
C10_BalanceMonotoneThenFlat ==
    pc = "done" /\ OnWeightedPath(inputs) =>
        LET at == [i \in 1..Len(C10_Balances) |-> C10_ScoreAt(C10_Balances[i])]
        IN  /\ \A i \in 1..(Len(C10_Balances) - 1) :
                   /\ RLe(at[i], at[i + 1])
                   /\ C10_Balances[i] >= 100000 => at[i] = at[i + 1]
            /\ \A i \in 1..Len(C10_Balances) :
                   /\ RLe(I(C10_Balances[i]), OrZero(inputs.ocBalance)) => RLe(at[i], result.score)
                   /\ RLe(OrZero(inputs.ocBalance), I(C10_Balances[i])) => RLe(result.score, at[i])

\* A balance of 200000 scores as 100000 does and strictly above 50000, unclamped.
C10_Witness ==
    /\ pc = "done"
    /\ OnWeightedPath(inputs)
    /\ inputs.ocBalance = Some(I(200000))
    /\ result.score = C10_ScoreAt(100000)
    /\ RLt(C10_ScoreAt(50000), result.score)
    /\ RLt(result.score, I(100))

---------------------------------------------------------------------------
(* Properties of calculateAllocation, checked under SpecAlloc.             *)

\* A package whose allocation weight is not zero.
HasWeight(pkg) ==
    /\ pkg.category # "corporate"
    /\ pkg.category = "thriving" \/ RLt(pkg.score, I(100))

SomeWeight(pkgs) == \E i \in 1..Len(pkgs) : HasWeight(pkgs[i])

SumOfAmounts(out) == RSum([i \in 1..Len(out) |-> out[i].suggestedAmount])

SumOfPercentages(out) == RSum([i \in 1..Len(out) |-> out[i].percentage])

\* C4: when the total weight is not zero, every amount has at most 2 decimals and
\* the amounts sum to the budget within 0.005 per package.
C4_AmountsSumToBudget ==
    pc = "done" /\ SomeWeight(packages) =>
        /\ \A i \in 1..Len(allocation) : RMul(allocation[i].suggestedAmount, I(100))[2] = 1
        /\ RLe(RAbs(RSub(SumOfAmounts(allocation), totalBudget)),
               RMul(Rat(5, 1000), I(Len(packages))))

\* Three packages share 1000 and the rounded amounts do not sum to 1000 exactly.
C4_Witness ==
    /\ pc = "done"
    /\ SomeWeight(packages)
    /\ Len(packages) = 3
    /\ totalBudget = I(1000)
    /\ SumOfAmounts(allocation) # totalBudget

\* C5: when the total weight is zero, there is one output per input and every
\* percentage and every amount is exactly 0, for any budget.
C5_ZeroWeightAllZero ==
    pc = "done" /\ ~SomeWeight(packages) =>
        /\ Len(allocation) = Len(packages)
        /\ \A i \in 1..Len(allocation) :
               /\ allocation[i].percentage = Zero
               /\ allocation[i].suggestedAmount = Zero

\* Two corporate packages and a budget of 1000.
C5_Witness ==
    /\ pc = "done"
    /\ Len(packages) = 2
    /\ \A i \in 1..Len(packages) : packages[i].category = "corporate"
    /\ totalBudget = I(1000)
    /\ Len(allocation) = 2
    /\ allocation[1].suggestedAmount = Zero

\* C6 as stated: the amount for a budget of 1000 is exactly 10 times the amount
\* for a budget of 100, for every package sequence and index.
C6_ExactlyLinear ==
    pc = "done" /\ totalBudget = I(1000) =>
        \A i \in 1..Len(allocation) :
            allocation[i].suggestedAmount =
                RMul(I(10), calculateAllocation(packages, I(100))[i].suggestedAmount)

\* C6 amended: the amount for a budget of 1000 differs from 10 times the amount
\* for a budget of 100 by at most 0.05, the rounding of the latter to 2 decimals
\* scaled by 10.
C6_LinearUpToRounding ==
    pc = "done" /\ totalBudget = I(1000) =>
        \A i \in 1..Len(allocation) :
            RLe(RAbs(RSub(allocation[i].suggestedAmount,
                          RMul(I(10), calculateAllocation(packages, I(100))[i].suggestedAmount))),
                Rat(5, 100))

\* A budget of 1000 where some amount is not 10 times the amount for 100.
C6_Witness ==
    /\ pc = "done"
    /\ totalBudget = I(1000)
    /\ \E i \in 1..Len(allocation) :
           allocation[i].suggestedAmount #
               RMul(I(10), calculateAllocation(packages, I(100))[i].suggestedAmount)

\* C7: one output per input, in input order, with the input's package name,
\* whether the total weight is zero or not; no input gives no output.
C7_OutputsAlignedWithInputs ==
    pc = "done" =>
        /\ Len(allocation) = Len(packages)
        /\ \A i \in 1..Len(packages) : allocation[i].packageName = packages[i].packageName

\* Three packages of zero total weight, the first two with different names.
C7_Witness ==
    /\ pc = "done"
    /\ Len(packages) = 3
    /\ ~SomeWeight(packages)
    /\ packages[1].packageName # packages[2].packageName
    /\ Len(allocation) = 3
    /\ allocation[2].packageName = packages[2].packageName

C8_Weight(pkg) ==
    IF pkg.category = "corporate" THEN Zero
    ELSE IF pkg.category = "thriving" THEN Rat(1, 10)
    ELSE IF RLt(pkg.score, I(100)) THEN RSub(I(100), pkg.score)
    ELSE Zero

C8_Total(pkgs) == RSum([i \in 1..Len(pkgs) |-> C8_Weight(pkgs[i])])

C8_RoundTo(x, unitsPerOne) == RDiv(MathRound(RMul(x, I(unitsPerOne))), I(unitsPerOne))

\* C8: the weight is 0 for corporate, 0.1 for thriving and max(0, 100 - score)
\* otherwise, the category overriding the score; when the total is not zero,
\* percentage = weight/total*100 rounded to 1 decimal and suggestedAmount =
\* weight/total*budget rounded to 2 decimals, so a corporate package gets 0 and 0.
C8_WeightsAndShares ==
    pc = "done" /\ SomeWeight(packages) =>
        \A i \in 1..Len(packages) :
            LET share == RDiv(C8_Weight(packages[i]), C8_Total(packages))
            IN  /\ allocation[i].percentage = C8_RoundTo(RMul(share, I(100)), 10)
                /\ allocation[i].suggestedAmount = C8_RoundTo(RMul(share, totalBudget), 100)
                /\ packages[i].category = "corporate" =>
                       /\ allocation[i].percentage = Zero
                       /\ allocation[i].suggestedAmount = Zero

\* A thriving package of score 76 beside a corporate one and one of score 50, with
\* a budget of 1000: the thriving package gets 0.1/50.1 of it, 2.00.
C8_Witness ==
    /\ pc = "done"
    /\ Len(packages) = 3
    /\ packages[1].category = "thriving" /\ packages[1].score = I(76)
    /\ packages[2].category = "corporate"
    /\ packages[3].category = "needs-support" /\ packages[3].score = I(50)
    /\ totalBudget = I(1000)
    /\ allocation[1].suggestedAmount = I(2)
    /\ allocation[2].suggestedAmount = Zero

\* C9: when the total weight is not zero, the percentages sum to 100 within 0.05
\* per package, and every percentage lies in [0, 100].
C9_PercentagesSumTo100 ==
    pc = "done" /\ SomeWeight(packages) =>
        /\ RLe(RAbs(RSub(SumOfPercentages(allocation), I(100))),
               RMul(Rat(5, 100), I(Len(packages))))
        /\ \A i \in 1..Len(allocation) :
               /\ RLe(Zero, allocation[i].percentage)
               /\ RLe(allocation[i].percentage, I(100))

\* Three packages whose rounded percentages do not sum to 100 exactly.
C9_Witness ==
    /\ pc = "done"
    /\ SomeWeight(packages)
    /\ Len(packages) = 3
    /\ SumOfPercentages(allocation) # I(100)

---------------------------------------------------------------------------
(* Further properties of calculateScore, checked under SpecScore.          *)

C11_ScoreAt(count) ==
    calculateScore([inputs EXCEPT !.maintainerCount = Some(I(count))], weights).score

C11_Capped == <<5, 6, 10, 100>>

\* C11: on the weighted path with the default weights, all other inputs fixed,
\* maintainerCount = 1 scores strictly below maintainerCount = 3, and every
\* maintainerCount >= 5 scores the same.
C11_SoloBelowThreeAndCapAtFive ==
    pc = "done" /\ OnWeightedPath(inputs) /\ weights = DEFAULT_WEIGHTS =>
        /\ RLt(C11_ScoreAt(1), C11_ScoreAt(3))
        /\ \A i \in 1..Len(C11_Capped) : C11_ScoreAt(C11_Capped[i]) = C11_ScoreAt(5)
        /\ inputs.maintainerCount = Some(One) => RLt(result.score, C11_ScoreAt(3))
        /\ inputs.maintainerCount = Some(I(3)) => RLt(C11_ScoreAt(1), result.score)

\* A solo-maintained package scored with the default weights.
C11_Witness ==
    /\ pc = "done"
    /\ OnWeightedPath(inputs)
    /\ weights = DEFAULT_WEIGHTS
    /\ inputs.maintainerCount = Some(One)
    /\ RLt(result.score, C11_ScoreAt(3))
    /\ C11_ScoreAt(5) = C11_ScoreAt(10)
    /\ RLt(C11_ScoreAt(3), C11_ScoreAt(5))

C12_Days == <<0, 1, 365, 366, 500, 730, 1095, 1096, 2000>>

C12_FactorsAt(days) ==
    calculateScore([inputs EXCEPT !.daysSinceLastPublish = Some(I(days))], weights).factors

C12_Inactivity(factors) == {i \in 1..Len(factors) : factors[i].name = "Inactivity"}

\* The penalty recorded by the Inactivity factor, 0 when there is none.
C12_Penalty(factors) ==
    IF C12_Inactivity(factors) = {} THEN Zero
    ELSE RNeg(factors[CHOOSE i \in C12_Inactivity(factors) : TRUE].impact)

C12_Expected(days, w) ==
    LET over == Rat(days - 365, 730)
    IN  RMul(IF RLt(One, over) THEN One ELSE over, w.activityPenalty)

\* C12: on the weighted path there is an Inactivity factor if and only if
\* daysSinceLastPublish > 365; its penalty is min(1, (days - 365)/730) *
\* weights.activityPenalty, strictly increasing for 365 < days <= 1095 and
\* constant from 1095 on.  The days are varied over C12_Days with every other
\* input and the weights taken from the state.
C12_InactivityFactor ==
    /\ pc = "done" /\ OnWeightedPath(inputs) =>
           (C12_Inactivity(result.factors) # {} <=>
                RLt(I(365), OrZero(inputs.daysSinceLastPublish)))
    /\ pc = "done" /\ OnWeightedPath(inputs) /\ inputs.daysSinceLastPublish = None =>
        LET at == [i \in 1..Len(C12_Days) |-> C12_FactorsAt(C12_Days[i])]
        IN  /\ \A i \in 1..Len(C12_Days) :
                   /\ C12_Inactivity(at[i]) # {} <=> C12_Days[i] > 365
                   /\ Cardinality(C12_Inactivity(at[i])) <= 1
                   /\ C12_Days[i] > 365 =>
                          C12_Penalty(at[i]) = C12_Expected(C12_Days[i], weights)
            /\ \A i \in 1..(Len(C12_Days) - 1) :
                   /\ C12_Days[i] >= 365 /\ C12_Days[i + 1] <= 1095 =>
                          RLt(C12_Penalty(at[i]), C12_Penalty(at[i + 1]))
                   /\ C12_Days[i] >= 1095 => C12_Penalty(at[i]) = C12_Penalty(at[i + 1])

\* A package last published 730 days ago: half of the activity penalty.
C12_Witness ==
    /\ pc = "done"
    /\ OnWeightedPath(inputs)
    /\ inputs.daysSinceLastPublish = Some(I(730))
    /\ C12_Inactivity(result.factors) # {}
    /\ C12_Penalty(result.factors) = RDiv(weights.activityPenalty, I(2))

\* C13: on every path the explanation has at most 3 sentences and at most as
\* many as there are factors.
C13_ExplanationLength ==
    pc = "done" =>
        /\ Len(result.explanation) <= 3
        /\ Len(result.explanation) <= Len(result.factors)

\* A weighted-path result with more than three factors and three sentences.
C13_Witness ==
    /\ pc = "done"
    /\ OnWeightedPath(inputs)
    /\ Len(result.factors) > 3
    /\ Len(result.explanation) = 3

\* The place of a factor in the order of evaluation.
C20_Order(name) ==
    CASE name = "Weekly Downloads" -> 1
      [] name = "Dependent Packages" -> 2
      [] name = "OC Balance" -> 3
      [] name = "OC Income" -> 4
      [] name = "GitHub Sponsors" -> 5
      [] name \in {"Maintainer Count", "Solo Maintainer"} -> 6
      [] name = "Inactivity" -> 7
      [] name = "AI Disruption" -> 8
      [] name = "High Impact, Low Funding" -> 9

\* The place of factor i after a stable sort by descending absolute impact.
C20_Rank(factors, i) ==
    1 + Cardinality({j \in 1..Len(factors) :
                        \/ RLt(RAbs(factors[i].impact), RAbs(factors[j].impact))
                        \/ RAbs(factors[j].impact) = RAbs(factors[i].impact) /\ j < i})

\* C20: on the weighted path the explanation is the reasons of the first three
\* factors in descending order of absolute impact, ties in evaluation order,
\* while the factors returned stay in evaluation order.
C20_ExplanationSortedFactorsNot ==
    pc = "done" /\ OnWeightedPath(inputs) =>
        /\ Len(result.explanation) =
               (IF Len(result.factors) < 3 THEN Len(result.factors) ELSE 3)
        /\ \A i \in 1..Len(result.factors) :
               C20_Rank(result.factors, i) <= 3 =>
                   result.explanation[C20_Rank(result.factors, i)] = result.factors[i].reason
        /\ \A i, j \in 1..Len(result.factors) :
               i < j => C20_Order(result.factors[i].name) < C20_Order(result.factors[j].name)

\* Two of the three strongest factors have the same absolute impact, and the
\* factors as returned are not in descending order of absolute impact.
C20_Witness ==
    /\ pc = "done"
    /\ OnWeightedPath(inputs)
    /\ Len(result.factors) > 3
    /\ \E i, j \in 1..Len(result.factors) :
           /\ i < j
           /\ RAbs(result.factors[i].impact) = RAbs(result.factors[j].impact)
           /\ C20_Rank(result.factors, j) <= 3
    /\ \E i, j \in 1..Len(result.factors) :
           i < j /\ RLt(RAbs(result.factors[i].impact), RAbs(result.factors[j].impact))

---------------------------------------------------------------------------
(* Properties of the range formatters, checked under SpecFormat.           *)

C14_Edges == <<0, 100, 500, 1000, 5000, 10000, 25000, 50000, 100000, 250000, 500000, 1000000>>

C14_Labels ==
    <<"<$100", "$100-500", "$500-1K", "$1K-5K", "$5K-10K", "$10K-25K", "$25K-50K",
      "$50K-100K", "$100K-250K", "$250K-500K", "$500K-1M", ">$1M">>

\* The buckets [edge i, edge i+1) that hold a, the last one unbounded above.
C14_Buckets(a) ==
    {i \in 1..Len(C14_Edges) :
        /\ RLe(I(C14_Edges[i]), a)
        /\ i < Len(C14_Edges) => RLt(a, I(C14_Edges[i + 1]))}

C14_LabelOf(a) == C14_Labels[CHOOSE i \in C14_Buckets(a) : TRUE]

C15_MonthlyIsRangeOfTwelfth ==
    monthlyLabel # NotCalled =>
        /\ monthlyLabel[1] = None <=> (amount = None \/ RLe(amount[1], Zero))
        /\ (amount # None /\ RLt(Zero, amount[1])) =>
               /\ formatAmountRange(Some(RDiv(amount[1], I(12)))) # None
               /\ monthlyLabel[1] =
                      Some(formatAmountRange(Some(RDiv(amount[1], I(12))))[1] \o "/mo")
               /\ monthlyLabel[1] = Some(C14_LabelOf(RDiv(amount[1], I(12))) \o "/mo")
        /\ amount = Some(I(12000)) => monthlyLabel[1] = Some("$1K-5K/mo")

\* A yearly 12000 was formatted as the bucket of 1000 a month.
C15_Witness ==
    /\ amount = Some(I(12000))
    /\ monthlyLabel = Returned(Some("$1K-5K/mo"))
    /\ label = Returned(Some("$10K-25K"))

---------------------------------------------------------------------------
(* Properties of buildFundingSummary and hasFundingData, checked under     *)
(* SpecFunding.  A slug or an owner handle is present when it is a         *)
(* non-empty string.                                                       *)

C16_Present(o) == o # None /\ o[1] # ""

C16_Platform(s) == IF s = None THEN "none" ELSE s[1].platform

\* C16: with an ocSlug present buildFundingSummary returns an opencollective
\* summary whatever the GitHub fields are; otherwise a github summary if and
\* only if ghHasSponsorsListing is true and repositoryOwner is present;
\* otherwise none.
C16_PlatformPriority ==
    summary # NotCalled =>
        /\ C16_Present(fundingPkg.ocSlug) => C16_Platform(summary[1]) = "opencollective"
        /\ ~C16_Present(fundingPkg.ocSlug) =>
               /\ C16_Platform(summary[1]) \in {"github", "none"}
               /\ C16_Platform(summary[1]) = "github" <=>
                      /\ fundingPkg.ghHasSponsorsListing = Some(TRUE)
                      /\ C16_Present(fundingPkg.repositoryOwner)

\* Every field of both platforms is there and the summary is the
\* opencollective one.
C16_Witness ==
    /\ summary # NotCalled
    /\ C16_Present(fundingPkg.ocSlug)
    /\ fundingPkg.ghHasSponsorsListing = Some(TRUE)
    /\ C16_Present(fundingPkg.repositoryOwner)
    /\ C16_Platform(summary[1]) = "opencollective"

\* C17: hasFundingData is true if and only if buildFundingSummary returns a
\* summary.
C17_HasFundingDataIffSummary ==
    summary # NotCalled /\ hasData # NotCalled =>
        (hasData[1] = TRUE <=> summary[1] # None)

\* A listing flag without an owner handle: no summary, and no funding data.
C17_Witness ==
    /\ summary = Returned(None)
    /\ hasData = Returned(FALSE)
    /\ fundingPkg.ghHasSponsorsListing = Some(TRUE)
    /\ fundingPkg.repositoryOwner = None

---------------------------------------------------------------------------
(* Properties of the analyze handlers, checked under SpecAnalyze.          *)

\* The packages of an analyze response with status 200, none for any other
\* response.
ResponsePackages(r) ==
    IF r = NotCalled \/ r[1].status # 200 \/ "summary" \notin DOMAIN r[1].body[1] THEN <<>>
    ELSE r[1].body[1].packages

\* C18: in a successful analyze response every package has an allocation and
\* no package has a smaller suggestedAmount than the package after it.
C18_SortedByDescendingAmount ==
    LET ps == ResponsePackages(response)
    IN  /\ \A i \in 1..Len(ps) : ps[i].allocation # None
        /\ \A i \in 1..(Len(ps) - 1) :
               RLe(ps[i + 1].allocation[1].suggestedAmount, ps[i].allocation[1].suggestedAmount)

\* Three packages answered in an order that is not the order of the request:
\* the first name requested is not the first answered, and the amounts differ.
C18_Witness ==
    LET ps == ResponsePackages(response)
    IN  /\ Len(ps) = 3
        /\ request.dependencies # None
        /\ Len(request.dependencies[1]) > 0
        /\ ps[1].name # request.dependencies[1][1].name
        /\ RLt(ps[3].allocation[1].suggestedAmount, ps[2].allocation[1].suggestedAmount)
        /\ RLt(ps[2].allocation[1].suggestedAmount, ps[1].allocation[1].suggestedAmount)

\* The names a request asks for: the keys of dependencies and devDependencies.
C19_Requested(body) ==
    {body.dependencies[1][i].name : i \in 1..Len(body.dependencies[1])}
        \cup (IF body.devDependencies = None THEN {}
              ELSE {body.devDependencies[1][i].name : i \in 1..Len(body.devDependencies[1])})

C19_Step ==
    response = NotCalled /\ ResponsePackages(response') # <<>> =>
        LET ps == ResponsePackages(response')
        IN  /\ \A n \in C19_Requested(request) :
                   Cardinality({i \in 1..Len(ps) : ps[i].name = n}) = 1
            /\ \A i \in 1..Len(ps) : ps[i].name \in C19_Requested(request)
            /\ \A i \in 1..Len(ps) :
                   IF db[ps[i].name] = None
                   THEN /\ ps[i].found = FALSE
                        /\ ps[i].sustainabilityScore = I(50)
                        /\ ps[i].category = "stable"
                        /\ ps[i].fundingSources = <<>>
                        /\ ps[i].fundingSummary = None
                   ELSE LET score == calculateScore(ScoringInputsOf(db[ps[i].name][1]),
                                                    DEFAULT_WEIGHTS)
                        IN  /\ ps[i].found = TRUE
                            /\ ps[i].sustainabilityScore = score.score
                            /\ ps[i].category = score.category

\* C19: an analyze response has exactly one entry for each name requested; a
\* name without a row when the table is read is answered with found = false,
\* score 50, category stable and no funding data, a name with a row with
\* found = true and the score and category calculateScore returns for it.
C19_OneEntryPerName == [][C19_Step]_vars

\* A response with a placeholder entry next to a package that has a row and
\* was scored otherwise.
C19_Witness ==
    LET ps == ResponsePackages(response)
    IN  \E i, j \in 1..Len(ps) :
            /\ ps[i].found = FALSE
            /\ ps[i].sustainabilityScore = I(50)
            /\ ps[i].category = "stable"
            /\ ps[j].found = TRUE
            /\ ps[j].sustainabilityScore # I(50)

---------------------------------------------------------------------------
(* Properties of the weighted path and of the categories, checked under    *)
(* SpecScore.                                                              *)

C21_Factor(factors, name) == {i \in 1..Len(factors) : factors[i].name = name}

C21_HasFactor(factors, name) == C21_Factor(factors, name) # {}

C21_Impact(factors, name) == factors[CHOOSE i \in C21_Factor(factors, name) : TRUE].impact

\* The weights with other values for downloads and dependents.
C21_OtherWeights == <<[d |-> 0, p |-> 0], [d |-> 1, p |-> 40], [d |-> 100, p |-> 3]>>

\* C21: on the weighted path downloads and dependents are recorded as factors
\* of negative impact and the score does not depend on weights.downloads or
\* weights.dependents; when the importance penalty does not apply the score is
\* that of the same inputs without the two signals.
C21_DownloadsAndDependentsNotAdded ==
    pc = "done" /\ OnWeightedPath(inputs) =>
        /\ C21_HasFactor(result.factors, "Weekly Downloads") <=>
               TruthyNumber(inputs.weeklyDownloads)
        /\ C21_HasFactor(result.factors, "Dependent Packages") <=>
               TruthyNumber(inputs.dependentCount)
        /\ C21_HasFactor(result.factors, "Weekly Downloads") =>
               RLt(C21_Impact(result.factors, "Weekly Downloads"), Zero)
        /\ C21_HasFactor(result.factors, "Dependent Packages") =>
               RLt(C21_Impact(result.factors, "Dependent Packages"), Zero)
        /\ (TruthyNumber(inputs.weeklyDownloads) \/ TruthyNumber(inputs.dependentCount)) =>
               /\ \A i \in 1..Len(C21_OtherWeights) :
                      calculateScore(inputs,
                                     [weights EXCEPT
                                         !.downloads = I(C21_OtherWeights[i].d),
                                         !.dependents = I(C21_OtherWeights[i].p)]
                                     ).score = result.score
               /\ ~C21_HasFactor(result.factors, "High Impact, Low Funding") =>
                      calculateScore([inputs EXCEPT !.weeklyDownloads = None,
                                                    !.dependentCount = None],
                                     weights).score = result.score

\* Both signals were recorded, the penalty did not apply, and other factors
\* moved the score away from the base.
C21_Witness ==
    /\ pc = "done"
    /\ OnWeightedPath(inputs)
    /\ C21_HasFactor(result.factors, "Weekly Downloads")
    /\ C21_HasFactor(result.factors, "Dependent Packages")
    /\ ~C21_HasFactor(result.factors, "High Impact, Low Funding")
    /\ result.score # I(50)
    /\ calculateScore([inputs EXCEPT !.weeklyDownloads = None, !.dependentCount = None],
                      weights).score = result.score

\* The factors whose impact calculateScore adds to the running score.
C22_Added ==
    {"OC Balance", "OC Income", "GitHub Sponsors", "Maintainer Count", "Solo Maintainer",
     "Inactivity", "AI Disruption"}

\* The running score before the importance block: the base 50 and the impact
\* of every factor recorded that is added to the score.
C22_Running(factors) ==
    RAdd(I(50), RSum([i \in 1..Len(factors) |->
                         IF factors[i].name \in C22_Added THEN factors[i].impact ELSE Zero]))

C22_Importance(in) ==
    RAdd(RMul(Rat(6, 10), normalizeDownloads(in.weeklyDownloads)),
         RMul(Rat(4, 10), normalizeDependents(in.dependentCount)))

\* Rounded to the nearest integer, halves up, then kept within 0..100.
C22_Clamped(x) ==
    LET r == I((2 * x[1] + x[2]) \div (2 * x[2]))
    IN  IF RLt(r, Zero) THEN Zero ELSE IF RLt(I(100), r) THEN I(100) ELSE r

\* C22: on the weighted path the 'High Impact, Low Funding' factor is recorded
\* and importance * 15 subtracted exactly when importance = 0.6 *
\* downloadsFactor + 0.4 * dependentsFactor is above 0.3 and the running score
\* after all other factors is below 60; otherwise nothing is subtracted.
C22_ImportancePenalty ==
    pc = "done" /\ OnWeightedPath(inputs) =>
        LET running == C22_Running(result.factors)
            importance == C22_Importance(inputs)
            applies == RLt(Rat(3, 10), importance) /\ RLt(running, I(60))
        IN  /\ C21_HasFactor(result.factors, "High Impact, Low Funding") <=> applies
            /\ applies =>
                   /\ C21_Impact(result.factors, "High Impact, Low Funding") =
                          RNeg(RMul(importance, I(15)))
                   /\ result.score = C22_Clamped(RSub(running, RMul(importance, I(15))))
            /\ ~applies => result.score = C22_Clamped(running)

\* An important package whose running score is 60 or more: no penalty.
C22_Witness ==
    /\ pc = "done"
    /\ OnWeightedPath(inputs)
    /\ RLt(Rat(3, 10), C22_Importance(inputs))
    /\ RLe(I(60), C22_Running(result.factors))
    /\ ~C21_HasFactor(result.factors, "High Impact, Low Funding")
    /\ result.score = C22_Clamped(C22_Running(result.factors))

\* The band of a score: up to 30, up to 50, up to 75, up to 90, above.
C23_Band(score) ==
    IF RLe(score, I(30)) THEN "critical"
    ELSE IF RLe(score, I(50)) THEN "needs-support"
    ELSE IF RLe(score, I(75)) THEN "stable"
    ELSE IF RLe(score, I(90)) THEN "thriving"
    ELSE "corporate"

\* C23: on the maintainer-status path, the corporate path and the weighted
\* path the category returned is the band of the score returned.
C23_CategoryIsBandOfScore ==
    pc = "done" => result.category = C23_Band(result.score)

\* A weighted-path score exactly on the threshold 50.
C23_Witness ==
    /\ pc = "done"
    /\ OnWeightedPath(inputs)
    /\ result.score = I(50)
    /\ result.category = "needs-support"

\* C24: a package with neither maintainerStatus nor corporateBacking that
\* scores above 90 with the default weights is of category corporate and has
\* allocation weight 0.
C24_CorporateByScore ==
    (pc = "done" /\ OnWeightedPath(inputs) /\ weights = DEFAULT_WEIGHTS
        /\ RLt(I(90), result.score)) =>
        /\ result.category = "corporate"
        /\ allocationWeight([packageName |-> "pkg", score |-> result.score,
                             category |-> result.category]) = Zero

\* Such a package: full balance and income, sponsors, three maintainers.
C24_Witness ==
    /\ pc = "done"
    /\ inputs.maintainerStatus = None
    /\ inputs.corporateBacking = None
    /\ weights = DEFAULT_WEIGHTS
    /\ RLt(I(90), result.score)
    /\ result.category = "corporate"
    /\ calculateAllocation(<<[packageName |-> "numeric", score |-> result.score,
                              category |-> result.category],
                             [packageName |-> "other", score |-> I(50),
                              category |-> "needs-support"]>>,
                           I(100))[1].suggestedAmount = Zero

---------------------------------------------------------------------------
(* Further properties of calculateAllocation, checked under SpecAlloc.     *)

C25_Needy == {"critical", "needs-support", "stable"}

C26_LowerScoreGetsMore ==
    pc = "done" =>
        \A i, j \in 1..Len(packages) :
            (/\ packages[i].category \in C25_Needy
             /\ packages[j].category \in C25_Needy
             /\ RLt(packages[i].score, packages[j].score)) =>
                /\ RLe(allocation[j].suggestedAmount, allocation[i].suggestedAmount)
                /\ RLe(allocation[j].percentage, allocation[i].percentage)
                /\ RLt(packages[j].score, I(100)) =>
                       RLt(allocationWeights(packages)[j], allocationWeights(packages)[i])

\* The critical package of score 20 receives strictly more of 1000 than the
\* stable package of score 66 listed before it.
C26_Witness ==
    /\ pc = "done"
    /\ Len(packages) = 2
    /\ totalBudget = I(1000)
    /\ packages[1].category = "stable" /\ packages[1].score = I(66)
    /\ packages[2].category = "critical" /\ packages[2].score = I(20)
    /\ RLt(allocation[1].suggestedAmount, allocation[2].suggestedAmount)
    /\ RLt(allocation[1].percentage, allocation[2].percentage)

---------------------------------------------------------------------------
(* Further properties of buildFundingSummary, checked under SpecFunding.   *)
(* An image field is present when it is neither null nor undefined.        *)

\* The sponsors stored for the package: the items of the array, none when the
\* column holds anything else.
C27_Stored(p) == IF p.ghTopSponsors.kind = "array" THEN p.ghTopSponsors.items ELSE <<>>

C27_Image(sp) ==
    IF sp.avatarUrl # None THEN sp.avatarUrl
    ELSE IF sp.imageUrl # None THEN sp.imageUrl
    ELSE None

\* C27: a github summary has the stored sponsors in their order, all of them,
\* each with imageUrl taken from avatarUrl when present, otherwise imageUrl,
\* otherwise none; its balanceRange, monthlyIncomeRange and goalProgress are
\* none.
C27_GithubSponsorsNormalized ==
    (summary # NotCalled /\ C16_Platform(summary[1]) = "github") =>
        LET s == summary[1][1]
            stored == C27_Stored(fundingPkg)
        IN  /\ Len(s.topSponsors) = Len(stored)
            /\ \A i \in 1..Len(stored) :
                   /\ s.topSponsors[i].name = stored[i].name
                   /\ s.topSponsors[i].profileUrl = stored[i].profileUrl
                   /\ s.topSponsors[i].imageUrl = C27_Image(stored[i])
                   /\ DOMAIN s.topSponsors[i] = {"name", "imageUrl", "profileUrl"}
            /\ s.balanceRange = None
            /\ s.monthlyIncomeRange = None
            /\ s.goalProgress = None

\* Two sponsors, the first with both image fields and the second with
\* imageUrl only, on a package that also has OpenCollective amounts.
C27_Witness ==
    /\ summary # NotCalled
    /\ C16_Platform(summary[1]) = "github"
    /\ fundingPkg.ocBalance # None
    /\ fundingPkg.ocGoalProgress # None
    /\ Len(C27_Stored(fundingPkg)) = 2
    /\ C27_Stored(fundingPkg)[1].name = "alice"
    /\ C27_Stored(fundingPkg)[2].name = "carol"
    /\ summary[1][1].topSponsors[1].imageUrl = Some("https://avatars/alice")
    /\ summary[1][1].topSponsors[2].imageUrl = Some("https://images/carol")

---------------------------------------------------------------------------
(* Further properties of the analyze handlers, checked under SpecAnalyze.  *)

\* The budget of a response with status 200.
C28_Budget(r) == r[1].body[1].budget

\* The allocation weight of an entry of the response, from its score and
\* category.
C28_Weight(p) == C8_Weight([score |-> p.sustainabilityScore, category |-> p.category])

C28_Total(ps) == RSum([i \in 1..Len(ps) |-> C28_Weight(ps[i])])

\* The part of the budget that falls to weight 50 among the packages ps.
C28_Share(ps, budget) == RMul(RDiv(I(50), C28_Total(ps)), budget)

\* C28 as stated: a package without a row gets a non-zero suggestedAmount
\* whenever the budget is positive.
C28_NotFoundGetsNonZero ==
    LET ps == ResponsePackages(response)
    IN  \A i \in 1..Len(ps) :
            ps[i].found = FALSE /\ RLt(Zero, C28_Budget(response)) =>
                /\ ps[i].allocation # None
                /\ ps[i].allocation[1].suggestedAmount # Zero

\* C28: a package without a row enters calculateAllocation with score 50 and
\* category stable, has weight 50, and is allocated its share 50 / total
\* weight of the one budget of the response, rounded to cents: non-zero
\* whenever that share is at least half a cent.
C28_NotFoundSharesBudget ==
    LET ps == ResponsePackages(response)
    IN  \A i \in 1..Len(ps) :
            ps[i].found = FALSE =>
                /\ ps[i].sustainabilityScore = I(50)
                /\ ps[i].category = "stable"
                /\ C28_Weight(ps[i]) = I(50)
                /\ ps[i].allocation # None
                /\ ps[i].allocation[1].packageName = ps[i].name
                /\ ps[i].allocation[1].suggestedAmount =
                       C8_RoundTo(C28_Share(ps, C28_Budget(response)), 100)
                /\ RLe(Rat(5, 1000), C28_Share(ps, C28_Budget(response))) =>
                       RLt(Zero, ps[i].allocation[1].suggestedAmount)

\* A budget of 1000 shared between a package without a row and one with a row
\* that has weight: both get a part, and the parts add up to the budget.
C28_Witness ==
    LET ps == ResponsePackages(response)
    IN  /\ Len(ps) = 2
        /\ C28_Budget(response) = I(1000)
        /\ ps[1].found = TRUE
        /\ ps[2].found = FALSE
        /\ RLt(Zero, ps[2].allocation[1].suggestedAmount)
        /\ RLt(ps[2].allocation[1].suggestedAmount, ps[1].allocation[1].suggestedAmount)
        /\ RAdd(ps[1].allocation[1].suggestedAmount, ps[2].allocation[1].suggestedAmount)
               = I(1000)

---------------------------------------------------------------------------
(* Properties of the routes that score packages, checked under SpecRoutes. *)

\* A row that differs from row in ghHasSponsorsListing and ghSponsorsCount
\* and in nothing else.
C30_OtherSponsors(row) ==
    [row EXCEPT !.ghHasSponsorsListing = IF @ = Some(TRUE) THEN None ELSE Some(TRUE),
                !.ghSponsorsCount = IF @ = None THEN Some(I(12)) ELSE None]

C30_OtherTable(table) ==
    [n \in PackageNames |->
        IF table[n] = None THEN None ELSE Some(C30_OtherSponsors(table[n][1]))]

\* What a response says of score, category and allocation.
C30_Scored(p) ==
    IF "found" \in DOMAIN p /\ ~p.found THEN <<p.name>>
    ELSE IF "allocation" \in DOMAIN p
    THEN <<p.name, p.sustainabilityScore, p.category, p.allocation>>
    ELSE <<p.name, p.sustainabilityScore, p.category>>

C30_View(r) ==
    IF r.status # 200 THEN <<>>
    ELSE IF "packages" \in DOMAIN r.body[1]
    THEN [i \in 1..Len(r.body[1].packages) |-> C30_Scored(r.body[1].packages[i])]
    ELSE <<C30_Scored(r.body[1])>>

\* The answers of the handlers of the request to the same request over table.
C30_Answers(req, table) ==
    IF req \in AnalyzeRequests
    THEN IF ValidationError(req) # None THEN {}
         ELSE {AnalyzeResponse(PostAnalyzed(AllDeps(req), table), req),
               AnalyzeResponse(HonoAnalyzed(AllDeps(req), table), req)}
    ELSE IF req \in PackageRequests THEN {PackageResponse(req.name, table)}
    ELSE {BatchResponse(req, table)}

C30_Step ==
    response = NotCalled /\ response' # NotCalled /\ response'[1].status = 200 =>
        \A other \in C30_Answers(request, C30_OtherTable(db)) :
            C30_View(other) = C30_View(response'[1])

\* C30: the handlers pass no GitHub Sponsors signal to calculateScore: the
\* score, category and allocation of every package in an answer are those
\* the handlers give when the rows of the table differ in
\* ghHasSponsorsListing and ghSponsorsCount and in nothing else.
C30_SponsorsDoNotCount == [][C30_Step]_vars

\* An analyze response for two packages whose rows differ only in the
\* Sponsors listing and its count: same score, category and amount.
C30_Witness ==
    LET ps == ResponsePackages(response)
    IN  /\ Len(ps) = 2
        /\ RLt(Zero, response[1].body[1].budget)
        /\ {db[ps[1].name], db[ps[2].name]} = {Some(SoloRow), Some(SponsoredSoloRow)}
        /\ ps[1].sustainabilityScore = ps[2].sustainabilityScore
        /\ ps[1].category = ps[2].category
        /\ ps[1].allocation[1].suggestedAmount = ps[2].allocation[1].suggestedAmount
        /\ RLt(Zero, ps[1].allocation[1].suggestedAmount)

---------------------------------------------------------------------------
(* Properties of the npm crawler, checked under SpecCrawl.                 *)

C29_Status(table, n) == IF table[n] = None THEN "none" ELSE table[n][1].enrichmentStatus

C29_Allowed ==
    {<<"pending", "in_progress">>, <<"completed", "in_progress">>,
     <<"in_progress", "completed">>, <<"in_progress", "failed">>}

\* The names the run has selected.
C29_Selected(c) == {c.packagesToEnrich[i].name : i \in 1..Len(c.packagesToEnrich)}

\* The package the run is enriching, if it is enriching one.
C29_Current(c) == IF c.pc = "enrich" THEN {c.packagesToEnrich[c.i + 1].name} ELSE {}

C29_Step ==
    /\ \A n \in PackageNames :
           C29_Status(db, n) # C29_Status(db', n) =>
               <<C29_Status(db, n), C29_Status(db', n)>> \in C29_Allowed
    /\ Cardinality({n \in C29_Selected(crawler') : C29_Status(db', n) = "in_progress"}) <= 1
    /\ \A n \in PackageNames :
           (\/ C29_Status(db, n) = "failed"
            \/ C29_Status(db, n) = "in_progress" /\ n \notin C29_Current(crawler))
           => (/\ C29_Status(db', n) = C29_Status(db, n)
               /\ (crawler'.packagesToEnrich # crawler.packagesToEnrich =>
                      n \notin C29_Selected(crawler'))
               /\ db'[n][1].lastEnrichedAt = db[n][1].lastEnrichedAt)

\* C29: the crawler changes an enrichmentStatus only from pending or
\* completed to in_progress and from in_progress to completed or failed; of
\* the packages a run has selected at most one is in_progress; a package that
\* is failed, or in_progress without being the one the run is enriching,
\* keeps its status, is in no later selection and is not enriched again.
C29_StatusTransitions == [][C29_Step]_vars

\* A second run is enriching a package that had been completed, next to a
\* package the first run failed and one it left in_progress: neither is in
\* the selection of the second run.
C29_Witness ==
    /\ crawler # None
    /\ crawler.runs = 2
    /\ crawler.pc = "enrich"
    /\ \E n, m \in PackageNames \ C29_Selected(crawler) :
           C29_Status(db, n) = "failed" /\ C29_Status(db, m) = "in_progress"
    /\ \E n \in C29_Current(crawler) : db[n][1].lastEnrichedAt # None

====
